---- MODULE Spec2Model ----
(***************************************************************************)
(* A model of the spatial grid and terrain subsystem of the castle game:   *)
(* the flat 2D container WorldGeometry (src/src/model.rs), the 3x3         *)
(* neighbourhood Around, the wall-adjacency classifier ConnectingWall      *)
(* (src/src/building.rs), the corner mapping RectangularMapping            *)
(* (src/src/terrain/mesh.rs) and the world-to-grid projection of Terrain   *)
(* (src/src/terrain.rs).                                                   *)
(*                                                                         *)
(* Conventions.  A Vec2 is a pair <<x, y>>.  Option<T> is a record:        *)
(* None or Some(v).  A Rust Vec of length n is a sequence 1..n, so the     *)
(* element at Rust index i is seq[i + 1].  World coordinates are floats    *)
(* that are always multiples of one half here; they are kept as integers   *)
(* counting half tiles (1.5 is 3).                                         *)
(***************************************************************************)
EXTENDS Integers, Sequences, FiniteSets, TLC

\* ------------------------------------------------------------------------
\* Bounds of the model.
\* ------------------------------------------------------------------------

\* Largest width and height of a WorldGeometry.
MaxSide == 3

\* Cell values are 0..MaxValue; 0 is T::default().
MaxValue == 1

\* Number of set/outline calls made on one grid.
MaxWrites == 2

\* usize arithmetic wraps at this modulus in a release build and panics in a
\* debug build.  The machine's modulus is 2^64; every index the model forms is
\* below (UsizeModulus - 1) * (MaxSide + 2), and a coordinate of -1 cast to
\* usize is UsizeModulus - 1 at either width, so the same calls overflow.
UsizeModulus == 2 ^ 16

\* ------------------------------------------------------------------------
\* Option<T>
\* ------------------------------------------------------------------------

None == [some |-> FALSE]

Some(v) == [some |-> TRUE, v |-> v]

\* The outcome of a call that panicked.
Panic == [panic |-> TRUE]

\* The result of a computation that has not run yet.
Pending == [kind |-> "Pending"]

VARIABLES
    size,       \* WorldGeometry.size: <<width, height>>
    map,        \* WorldGeometry.map: the flat Vec<T>
    build,      \* "debug" (overflow checks on) or "release" (wrapping)
    panicked,   \* the thread has panicked; nothing runs afterwards
    writes,     \* number of set/outline calls so far
    ret,        \* the last call: its name, arguments and result
    around,     \* an Around<Option<StructureEntity>> handed to the classifier
    connecting, \* the ConnectingWall computed from it, or Pending
    source,     \* RectangularMapping.map: a Vec<Vec<T>> of rows
    mapped,     \* the last RectangularMapping::get: its argument and result
    options,    \* Terrain.options.size: <<x, y>> in tiles
    probe,      \* the last projection asked of the terrain and its result
    sourceGrid, \* a Grid<T>: its size and its items
    made,       \* the last Grid constructed from it: the call and its outcome
    structures, \* the StructureLayers resource: entities, and what befell them
    modified,   \* Events<ConstructionEvent>: sent, not yet read
    sent,       \* how many construction events have been sent so far
    phase,      \* "startup" until setup_structures has run, then "game"
    drained,    \* the events the last run of refresh_terrain read
    passes,     \* classifications of every cell made since the last write
    gamePhase,  \* the Phase of the game
    history,    \* the phases left behind, oldest first
    layerTable, \* the Layers table looked up
    sampled,    \* the last value looked up and its colour, or None
    castle,     \* the castle built on an empty layer, or None
    placed,     \* the one construction event processed on it, or None
    statePhase, \* State<Phase>: the phase of the frame
    nextState,  \* NextState<Phase>: the phase set for the next transition, or None
    activePlayer, \* the ActivePlayer resource
    unread,     \* TerrainModifiedEvents sent and not yet read by progress_game
    ran,        \* the Update systems that have run in the frame
    frames,     \* frames begun
    tick,       \* the last run of progress_game that read events, or None
    control,    \* State<ExpirationControl>
    nextControl, \* NextState<ExpirationControl>: the control set for the next frame, or None
    elapsed,    \* Time::elapsed_seconds(), in ticks
    toggles,    \* presses of the pause key so far
    expiring,   \* the Expires component and the fate of each entity that carries one
    lastFrame,  \* the control of the last frame and the entities it despawned, or None
    meshOptions, \* size and resolution of the meshed terrain
    meshed,     \* the vertices and triangle indices of the mesh, or None
    activity,   \* State<Activity>
    activityChanges, \* changes of the activity so far
    placingEntities, \* the entities that carry Placing
    placingSpawned, \* Placing entities spawned so far
    buildLayers, \* the StructureLayers resource
    constructions, \* ConstructionEvents sent and not yet read by refresh_terrain
    lastTry,    \* the run of try_place: its clicks and the events it sent, or None
    cell,       \* a HeightOnlyCell: four corner heights, in tenths
    surveyed    \* the SurveyedCell it was classified as, or Pending

geometryVars == <<size, map, build, panicked, writes, ret>>

classifyVars == <<around, connecting>>

mappingVars == <<source, mapped>>

terrainVars == <<options, probe>>

surveyVars == <<cell, surveyed>>

gridVars == <<sourceGrid, made>>

structureVars == <<structures, modified, sent, phase, drained, passes>>

phaseVars == <<gamePhase, history>>

layerVars == <<layerTable, sampled>>

castleVars == <<castle, placed>>

gameVars == <<statePhase, nextState, activePlayer, unread, ran, frames, tick>>

expiryVars == <<control, nextControl, elapsed, toggles, expiring, lastFrame>>

meshVars == <<meshOptions, meshed>>

buildingVars == <<activity, activityChanges, placingEntities, placingSpawned, buildLayers, constructions, lastTry>>

vars ==
    <<geometryVars, classifyVars, mappingVars, terrainVars, surveyVars, gridVars,
      structureVars, phaseVars, layerVars, castleVars, gameVars, expiryVars,
      meshVars, buildingVars>>

Values == 0..MaxValue

Sides == 1..MaxSide

\* ------------------------------------------------------------------------
\* WorldGeometry<T>  (src/src/model.rs)
\* ------------------------------------------------------------------------

\* `-1 as usize`: an i32 reinterpreted as usize.
AsUsize(i) == i % UsizeModulus

\* fn coordinates_to_index(&self, c) -> usize { c.1 * self.size.1 + (c.0) }
\* The product and the sum are usize operations: on overflow a debug build
\* panics and a release build wraps.
coordinates_to_index(sz, c, bld) ==
    LET product == c[2] * sz[2]
        sum     == (product % UsizeModulus) + c[1]
    IN  IF (product >= UsizeModulus \/ sum >= UsizeModulus) /\ bld = "debug"
        THEN Panic
        ELSE [panic |-> FALSE, index |-> sum % UsizeModulus]

\* fn index_to_grid(&self, index) -> Vec2Usize { (index % size.0, index / size.1) }
index_to_grid(sz, index) == <<index % sz[1], index \div sz[2]>>

\* pub fn new(size) -> Self: size.0 * size.1 default cells.
WorldGeometry_new(sz) == [i \in 1..(sz[1] * sz[2]) |-> 0]

\* pub fn get(&self, c) -> Option<&T>
WorldGeometry_get(sz, m, c, bld) ==
    LET i == coordinates_to_index(sz, c, bld)
    IN  IF i.panic THEN Panic
        ELSE IF i.index < Len(m) THEN Some(m[i.index + 1])
        ELSE None

\* pub fn set(&mut self, c, value): self.map[index] = value panics when the
\* index is not below map.len().  The result is the map and whether it panicked.
WorldGeometry_set(sz, m, c, value, bld) ==
    LET i == coordinates_to_index(sz, c, bld)
    IN  IF i.panic \/ i.index >= Len(m)
        THEN [panic |-> TRUE, map |-> m]
        ELSE [panic |-> FALSE, map |-> [m EXCEPT ![i.index + 1] = value]]

\* pub const TILE_SIZE: f32 = 1.0;
TILE_SIZE == 1

\* fn index_to_coordindates(&self, index) -> Vec2:
\*   (c.0 as f32 - (size.0 / 2) as f32) * TILE_SIZE + (TILE_SIZE / 2.)
\* with size.0 / 2 an integer division; the result in half tiles.
index_to_coordindates(sz, index) ==
    LET c == index_to_grid(sz, index)
    IN  <<2 * (c[1] - (sz[1] \div 2)) * TILE_SIZE + TILE_SIZE,
          2 * (c[2] - (sz[2] \div 2)) * TILE_SIZE + TILE_SIZE>>

\* pub fn grid_position(&self, grid) -> Vec2 {
\*     self.index_to_coordindates(self.coordinates_to_index(grid)) }
WorldGeometry_grid_position(sz, grid, bld) ==
    LET i == coordinates_to_index(sz, grid, bld)
    IN  IF i.panic THEN Panic ELSE index_to_coordindates(sz, i.index)

\* pub fn layout(&self) -> Vec<(Vec2Usize, Vec2, &T)>: one entry for each index
\* of the map, in the order of the map.
WorldGeometry_layout(sz, m) ==
    [i \in 1..Len(m) |-> [grid |-> index_to_grid(sz, i - 1),
                          world |-> index_to_coordindates(sz, i - 1),
                          value |-> m[i]]]

\* The coordinates pub fn outline writes, in the order of its two loops:
\*   for x in x0..(x1 + 1) { set((x, y0)); set((x, y1)); }
\*   for y in (y0 + 1)..y1 { set((x0, y)); set((x1, y)); }
OutlineWrites(p0, p1) ==
    LET nx == IF p1[1] >= p0[1] THEN p1[1] - p0[1] + 1 ELSE 0
        ny == IF p1[2] > p0[2] + 1 THEN p1[2] - p0[2] - 1 ELSE 0
        rows == [k \in 1..(2 * nx) |->
                    <<p0[1] + ((k - 1) \div 2),
                      IF k % 2 = 1 THEN p0[2] ELSE p1[2]>>]
        cols == [k \in 1..(2 * ny) |->
                    <<IF k % 2 = 1 THEN p0[1] ELSE p1[1],
                      p0[2] + 1 + ((k - 1) \div 2)>>]
    IN  rows \o cols

\* The sets of a loop applied one after the other; the first one to panic ends
\* the call and leaves the cells written so far.
RECURSIVE ApplyWrites(_, _, _, _, _)
ApplyWrites(sz, m, ws, value, bld) ==
    IF ws = <<>> THEN [panic |-> FALSE, map |-> m]
    ELSE LET r == WorldGeometry_set(sz, m, Head(ws), value, bld)
         IN  IF r.panic THEN r
             ELSE ApplyWrites(sz, r.map, Tail(ws), value, bld)

\* pub fn outline(&mut self, (x0, y0), (x1, y1), value)
WorldGeometry_outline(sz, m, p0, p1, value, bld) ==
    ApplyWrites(sz, m, OutlineWrites(p0, p1), value, bld)

\* impl Around<IVec2> { pub fn center(c) }: the nine coordinates, rows
\* (NW, N, NE), (W, Center, E), (SW, S, SE).
Around_center(c) ==
    << << <<c[1] - 1, c[2] - 1>>, <<c[1], c[2] - 1>>, <<c[1] + 1, c[2] - 1>> >>,
       << <<c[1] - 1, c[2]>>,     <<c[1], c[2]>>,     <<c[1] + 1, c[2]>> >>,
       << <<c[1] - 1, c[2] + 1>>, <<c[1], c[2] + 1>>, <<c[1] + 1, c[2] + 1>> >> >>

\* The nine entries of an Around, as a set.
Around_entries(a) == {a[r][k] : r \in 1..3, k \in 1..3}

\* impl<T> Around<T> { pub fn map(&self, map_fn) }: map_fn is a function defined
\* on the entries of a.
Around_map(a, map_fn) ==
    << <<map_fn[a[1][1]], map_fn[a[1][2]], map_fn[a[1][3]]>>,
       <<map_fn[a[2][1]], map_fn[a[2][2]], map_fn[a[2][3]]>>,
       <<map_fn[a[3][1]], map_fn[a[3][2]], map_fn[a[3][3]]>> >>

\* pub fn around(&self, c) -> Around<Option<&T>>:
\*   Around::center(IVec2::new(c.0 as i32, c.1 as i32))
\*       .map(|c| self.get((c.x as usize, c.y as usize)))
\* One panicking get makes the whole call panic.
WorldGeometry_around(sz, m, c, bld) ==
    LET lookup == [p \in Around_entries(Around_center(c)) |->
                      WorldGeometry_get(sz, m, <<AsUsize(p[1]), AsUsize(p[2])>>, bld)]
        a == Around_map(Around_center(c), lookup)
    IN  IF \E r \in 1..3, k \in 1..3 : a[r][k] = Panic THEN Panic ELSE a

\* ------------------------------------------------------------------------
\* Grid<T>  (src/src/model/grid.rs)
\* ------------------------------------------------------------------------

\* pub fn get(&self, idx: IVec2) -> Option<&T>: the coordinate is checked
\* against both sides before the vector is indexed with x + y * size.0.
Grid_get(sz, items, idx) ==
    IF idx[1] >= sz[1] \/ idx[2] >= sz[2] \/ idx[1] < 0 \/ idx[2] < 0
    THEN None
    ELSE LET i == idx[1] + idx[2] * sz[1]
         IN  IF i < Len(items) THEN Some(items[i + 1]) ELSE None

\* ------------------------------------------------------------------------
\* Structures and the wall-adjacency classifier  (src/src/building.rs)
\* ------------------------------------------------------------------------

\* pub enum Structure { Wall(Wall), Cannon(Cannon) }; Wall.player, Cannon.player
Wall(player) == [kind |-> "Wall", player |-> player]

Cannon(player) == [kind |-> "Cannon", player |-> player]

\* pub enum StructureEntity { Empty, New(Structure), Affected(Structure, Entity),
\*                            Current(Structure, Entity) }
Empty == [tag |-> "Empty"]

New(s) == [tag |-> "New", structure |-> s]

Affected(s, e) == [tag |-> "Affected", structure |-> s, entity |-> e]

Current(s, e) == [tag |-> "Current", structure |-> s, entity |-> e]

\* fn structure(self) -> Option<Structure>
StructureEntity_structure(se) ==
    IF se.tag = "Empty" THEN None ELSE Some(se.structure)

\* fn as_wall(self) -> Option<Structure>
Structure_as_wall(st) ==
    IF st.kind = "Wall" THEN Some(st) ELSE None

\* simplify that takes only an entity already spawned (Current) for a structure.
simplify_current_only(v) ==
    IF ~v.some THEN None
    ELSE IF v.v.tag # "Current" THEN None
    ELSE Structure_as_wall(v.v.structure)

\* fn simplify(v: Option<StructureEntity>) -> Option<Structure> {
\*     v.and_then(|v| v.structure()).and_then(|v| v.as_wall()) }
simplify(v) ==
    IF ~v.some THEN None
    ELSE LET st == StructureEntity_structure(v.v)
         IN  IF ~st.some THEN None ELSE Structure_as_wall(st.v)

\* pub enum ConnectingWall { Isolated, NorthSouth, EastWest, Corner(u32), Unknown }
Isolated == [kind |-> "Isolated"]

NorthSouth == [kind |-> "NorthSouth"]

EastWest == [kind |-> "EastWest"]

Corner(angle) == [kind |-> "Corner", angle |-> angle]

Unknown == [kind |-> "Unknown"]

\* One arm of the match: a pattern is three rows of "N" (None), "S" (Some(_))
\* and "_" (anything), matched against an Around<Option<Structure>>.
Matches(v, pattern) ==
    \A r \in 1..3, k \in 1..3 :
        \/ pattern[r][k] = "_"
        \/ pattern[r][k] = "S" /\ v[r][k].some
        \/ pattern[r][k] = "N" /\ ~v[r][k].some

\* The classifier with the two straight runs exchanged.
ConnectingWall_from_swapped(v) ==
    IF Matches(v, << <<"N", "N", "N">>, <<"N", "_", "S">>, <<"N", "S", "N">> >>)
        THEN Corner(0)
    ELSE IF Matches(v, << <<"N", "N", "N">>, <<"S", "_", "N">>, <<"N", "S", "N">> >>)
        THEN Corner(90)
    ELSE IF Matches(v, << <<"N", "S", "N">>, <<"S", "_", "N">>, <<"N", "N", "N">> >>)
        THEN Corner(180)
    ELSE IF Matches(v, << <<"N", "S", "N">>, <<"N", "_", "S">>, <<"N", "N", "N">> >>)
        THEN Corner(270)
    ELSE IF Matches(v, << <<"N", "N", "N">>, <<"S", "_", "S">>, <<"N", "N", "N">> >>)
        THEN NorthSouth
    ELSE IF Matches(v, << <<"N", "S", "N">>, <<"N", "_", "N">>, <<"N", "S", "N">> >>)
        THEN EastWest
    ELSE IF Matches(v, << <<"N", "N", "N">>, <<"N", "S", "N">>, <<"N", "N", "N">> >>)
        THEN Isolated
    ELSE Unknown

\* The classifier with every None of the patterns loosened to a wildcard, so
\* that an arm asks only for the neighbours it names.
ConnectingWall_from_loose(v) ==
    IF Matches(v, << <<"_", "_", "_">>, <<"_", "_", "S">>, <<"_", "S", "_">> >>)
        THEN Corner(0)
    ELSE IF Matches(v, << <<"_", "_", "_">>, <<"S", "_", "_">>, <<"_", "S", "_">> >>)
        THEN Corner(90)
    ELSE IF Matches(v, << <<"_", "S", "_">>, <<"S", "_", "_">>, <<"_", "_", "_">> >>)
        THEN Corner(180)
    ELSE IF Matches(v, << <<"_", "S", "_">>, <<"_", "_", "S">>, <<"_", "_", "_">> >>)
        THEN Corner(270)
    ELSE IF Matches(v, << <<"_", "_", "_">>, <<"S", "_", "S">>, <<"_", "_", "_">> >>)
        THEN EastWest
    ELSE IF Matches(v, << <<"_", "S", "_">>, <<"_", "_", "_">>, <<"_", "S", "_">> >>)
        THEN NorthSouth
    ELSE IF Matches(v, << <<"_", "_", "_">>, <<"_", "S", "_">>, <<"_", "_", "_">> >>)
        THEN Isolated
    ELSE Unknown

\* impl From<Around<Option<Structure>>> for ConnectingWall: the arms of the
\* match in source order, the first matching arm wins.
ConnectingWall_from(v) ==
    IF Matches(v, << <<"N", "N", "N">>, <<"N", "_", "S">>, <<"N", "S", "N">> >>)
        THEN Corner(0)
    ELSE IF Matches(v, << <<"N", "N", "N">>, <<"S", "_", "N">>, <<"N", "S", "N">> >>)
        THEN Corner(90)
    ELSE IF Matches(v, << <<"N", "S", "N">>, <<"S", "_", "N">>, <<"N", "N", "N">> >>)
        THEN Corner(180)
    ELSE IF Matches(v, << <<"N", "S", "N">>, <<"N", "_", "S">>, <<"N", "N", "N">> >>)
        THEN Corner(270)
    ELSE IF Matches(v, << <<"N", "N", "N">>, <<"S", "_", "S">>, <<"N", "N", "N">> >>)
        THEN EastWest
    ELSE IF Matches(v, << <<"N", "S", "N">>, <<"N", "_", "N">>, <<"N", "S", "N">> >>)
        THEN NorthSouth
    ELSE IF Matches(v, << <<"N", "N", "N">>, <<"N", "S", "N">>, <<"N", "N", "N">> >>)
        THEN Isolated
    ELSE Unknown

\* let connecting: ConnectingWall = around.map(simplify).into();
\* (StructureLayers::create_entity, the Wall arm)
Classify(a) ==
    ConnectingWall_from(Around_map(a, [v \in Around_entries(a) |-> simplify(v)]))

\* ------------------------------------------------------------------------
\* The classifier as a one-shot computation: a neighbourhood is handed in,
\* then classified.
\* ------------------------------------------------------------------------

\* What one entry of a neighbourhood can be: a coordinate off the grid, an
\* empty cell, a wall and a cannon.
NeighbourEntries ==
    {None, Some(Empty), Some(New(Wall("One"))), Some(Current(Cannon("Two"), 1))}

ClassifyInit ==
    /\ around \in [1..3 -> [1..3 -> NeighbourEntries]]
    /\ connecting = Pending

ClassifyIdle ==
    /\ around = [r \in 1..3 |-> [k \in 1..3 |-> None]]
    /\ connecting = Pending

ClassifyWall ==
    /\ connecting = Pending
    /\ connecting' = Classify(around)
    /\ UNCHANGED around

ClassifyNext ==
    /\ ClassifyWall
    /\ UNCHANGED <<geometryVars, mappingVars, terrainVars, surveyVars, gridVars,
                   structureVars, phaseVars, layerVars, castleVars, gameVars,
                   expiryVars, meshVars, buildingVars>>

\* ------------------------------------------------------------------------
\* The WorldGeometry state machine: one grid, built once, then read and
\* written by its single owner.
\* ------------------------------------------------------------------------

\* Coordinates a caller passes to get and set: the cells, the first coordinate
\* past each side, and -1 as it arrives after a cast to usize.
CallCoords(sz) ==
    ((0..sz[1]) \cup {UsizeModulus - 1}) \X ((0..sz[2]) \cup {UsizeModulus - 1})

\* The cells of the grid.
Cells(sz) == (0..(sz[1] - 1)) \X (0..(sz[2] - 1))

GeometryInit ==
    /\ size \in Sides \X Sides
    /\ map = WorldGeometry_new(size)
    /\ build \in {"debug", "release"}
    /\ panicked = FALSE
    /\ writes = 0
    /\ ret = [op |-> "new"]

\* The grid while another part of the program is exercised.
GeometryIdle ==
    /\ size = <<1, 1>>
    /\ map = WorldGeometry_new(size)
    /\ build = "release"
    /\ panicked = FALSE
    /\ writes = 0
    /\ ret = [op |-> "new"]

Set(c, value) ==
    /\ ~panicked
    /\ writes < MaxWrites
    /\ LET r == WorldGeometry_set(size, map, c, value, build)
       IN  /\ map' = r.map
           /\ panicked' = r.panic
           /\ ret' = [op |-> "set", c |-> c, value |-> value,
                      before |-> map, panic |-> r.panic]
    /\ writes' = writes + 1
    /\ UNCHANGED <<size, build>>

Outline(p0, p1, value) ==
    /\ ~panicked
    /\ writes < MaxWrites
    /\ LET r == WorldGeometry_outline(size, map, p0, p1, value, build)
       IN  /\ map' = r.map
           /\ panicked' = r.panic
           /\ ret' = [op |-> "outline", p0 |-> p0, p1 |-> p1, value |-> value,
                      before |-> map, panic |-> r.panic]
    /\ writes' = writes + 1
    /\ UNCHANGED <<size, build>>

Get(c) ==
    /\ ~panicked
    /\ LET r == WorldGeometry_get(size, map, c, build)
       IN  /\ ret' = [op |-> "get", c |-> c, result |-> r]
           /\ panicked' = (r = Panic)
    /\ UNCHANGED <<size, map, build, writes>>

AroundCall(c) ==
    /\ ~panicked
    /\ LET r == WorldGeometry_around(size, map, c, build)
       IN  /\ ret' = [op |-> "around", c |-> c, result |-> r]
           /\ panicked' = (r = Panic)
    /\ UNCHANGED <<size, map, build, writes>>

\* grid_position(c) for a cell of the grid, with the index it goes through.
GridPosition(c) ==
    /\ ~panicked
    /\ LET i == coordinates_to_index(size, c, build)
       IN  ret' = [op |-> "grid_position", c |-> c, index |-> i.index,
                   grid |-> index_to_grid(size, i.index),
                   result |-> WorldGeometry_grid_position(size, c, build)]
    /\ UNCHANGED <<size, map, build, panicked, writes>>

Layout ==
    /\ ~panicked
    /\ ret' = [op |-> "layout", result |-> WorldGeometry_layout(size, map)]
    /\ UNCHANGED <<size, map, build, panicked, writes>>

\* Grid::get on the Grid that holds the same size and items.
GridGet(idx) ==
    /\ ~panicked
    /\ ret' = [op |-> "grid_get", c |-> idx, result |-> Grid_get(size, map, idx)]
    /\ UNCHANGED <<size, map, build, panicked, writes>>

GeometryNext ==
    /\ \/ \E c \in CallCoords(size), v \in Values : Set(c, v)
       \/ \E p0 \in Cells(size), p1 \in Cells(size), v \in Values :
             /\ p0[1] <= p1[1]
             /\ p0[2] <= p1[2]
             /\ Outline(p0, p1, v)
       \/ \E c \in CallCoords(size) : Get(c)
       \/ \E c \in Cells(size) : AroundCall(c)
       \/ \E idx \in ((-1)..size[1]) \X ((-1)..size[2]) : GridGet(idx)
       \/ \E c \in Cells(size) : GridPosition(c)
       \/ Layout
    /\ UNCHANGED <<classifyVars, mappingVars, terrainVars, surveyVars, gridVars,
                   structureVars, phaseVars, layerVars, castleVars, gameVars,
                   expiryVars, meshVars, buildingVars>>

\* ------------------------------------------------------------------------
\* RectangularMapping<Vec<Vec<T>>>  (src/src/terrain/mesh.rs)
\* ------------------------------------------------------------------------

\* Largest width and height of the source of a RectangularMapping.
MaxMapSide == 6

\* The source of the tests: rows of consecutive numbers, w to a row,
\* data[row][col] = row * w + col  (src/src/terrain/tests.rs).
RowMajorData(w, h) == [row \in 1..h |-> [col \in 1..w |-> (row - 1) * w + (col - 1)]]

\* map_coordinates with the second corner of an odd coordinate left on the
\* first: the "+ 1" of every arm dropped.
map_coordinates_flat(p) ==
    LET x == p[1]
        y == p[2]
        c == <<IF x % 2 = 0 THEN x \div 2 ELSE (x - 1) \div 2,
               IF y % 2 = 0 THEN y \div 2 ELSE (y - 1) \div 2>>
    IN  <<c, c, c, c>>

\* pub(super) fn map_coordinates(&self, p: UVec2) -> (UVec2, UVec2, UVec2, UVec2)
\* with the arms of match (x % 2 == 0, y % 2 == 0) in source order.
map_coordinates(p) ==
    LET x == p[1]
        y == p[2]
    IN  IF x % 2 = 0 /\ y % 2 # 0 THEN
            << <<x \div 2, (y - 1) \div 2>>,
               <<x \div 2, (y - 1) \div 2>>,
               <<x \div 2, (y - 1) \div 2 + 1>>,
               <<x \div 2, (y - 1) \div 2 + 1>> >>
        ELSE IF x % 2 # 0 /\ y % 2 = 0 THEN
            << <<(x - 1) \div 2, y \div 2>>,
               <<(x - 1) \div 2 + 1, y \div 2>>,
               <<(x - 1) \div 2, y \div 2>>,
               <<(x - 1) \div 2 + 1, y \div 2>> >>
        ELSE IF x % 2 # 0 /\ y % 2 # 0 THEN
            << <<(x - 1) \div 2, (y - 1) \div 2>>,
               <<(x - 1) \div 2 + 1, (y - 1) \div 2>>,
               <<(x - 1) \div 2, (y - 1) \div 2 + 1>>,
               <<(x - 1) \div 2 + 1, (y - 1) \div 2 + 1>> >>
        ELSE
            << <<x \div 2, y \div 2>>, <<x \div 2, y \div 2>>,
               <<x \div 2, y \div 2>>, <<x \div 2, y \div 2>> >>

\* pub fn get(&self, p: UVec2) -> [T; 4]: self.map[c.y][c.x] for each of the four
\* coordinates; indexing past a Vec panics.
RectangularMapping_get(data, p) ==
    LET cs == map_coordinates(p)
        inside(c) == c[2] < Len(data) /\ c[1] < Len(data[c[2] + 1])
    IN  IF \A i \in 1..4 : inside(cs[i])
        THEN [i \in 1..4 |-> data[cs[i][2] + 1][cs[i][1] + 1]]
        ELSE Panic

MappingInit ==
    /\ \E w \in 1..MaxMapSide, h \in 1..MaxMapSide : source = RowMajorData(w, h)
    /\ mapped = Pending

MappingIdle ==
    /\ source = RowMajorData(1, 1)
    /\ mapped = Pending

\* A corner-grid coordinate is looked up; the coordinates offered reach two
\* past the last corner 2 * (side - 1) of each axis.
MappingGet(p) ==
    /\ mapped' = [p |-> p, result |-> RectangularMapping_get(source, p)]
    /\ UNCHANGED source

MappingNext ==
    /\ \E p \in (0..(2 * Len(source[1]))) \X (0..(2 * Len(source))) : MappingGet(p)
    /\ UNCHANGED <<geometryVars, classifyVars, terrainVars, surveyVars, gridVars,
                   structureVars, phaseVars, layerVars, castleVars, gameVars,
                   expiryVars, meshVars, buildingVars>>

\* ------------------------------------------------------------------------
\* Terrain: world to grid  (src/src/terrain.rs), and the grid to world of
\* WorldGeometry  (src/src/model.rs).  Positions are in half tiles.
\* ------------------------------------------------------------------------

\* Largest side of a terrain, in tiles.
MaxTerrainSide == 4

\* fn world_to_local(&self) -> Vec3 { Vec3::new(size.x, 0., size.y) / 2.0 }
\* The x and z of the offset, in half tiles.
Terrain_world_to_local(sz) == <<sz[1], sz[2]>>

\* Vec2::as_uvec2: a float to u32 cast of each component, which truncates
\* toward zero and saturates below at 0.
as_uvec2(v) ==
    <<IF v[1] < 0 THEN 0 ELSE v[1] \div 2, IF v[2] < 0 THEN 0 ELSE v[2] \div 2>>

\* pub fn world_to_grid(&self, position: Vec3) -> Option<UVec2>; position is
\* <<x, z>> (the height plays no part).
Terrain_world_to_grid(sz, position) ==
    LET offset == Terrain_world_to_local(sz)
        local == <<position[1] + offset[1], position[2] + offset[2]>>
    IN  IF \/ local[1] > 2 * sz[1]
           \/ local[2] > 2 * sz[2]
           \/ local[1] < 0
           \/ local[2] < 0
        THEN None
        ELSE Some(as_uvec2(local))

\* pub fn survey(&self, position: Vec3) -> Option<Survey>: over the grid the
\* cells adjacent to the index are collected and logged, and None is returned;
\* off the grid None is returned.
Terrain_survey(sz, position) ==
    LET index == Terrain_world_to_grid(sz, position)
    IN  IF index.some THEN None ELSE None

TerrainInit ==
    /\ options \in (1..MaxTerrainSide) \X (1..MaxTerrainSide)
    /\ probe = Pending

TerrainIdle ==
    /\ options = <<1, 1>>
    /\ probe = Pending

\* A world position is projected onto the grid.
WorldToGrid(position) ==
    /\ probe' = [op |-> "world_to_grid", position |-> position,
                 result |-> Terrain_world_to_grid(options, position)]
    /\ UNCHANGED options

\* The world position of a cell of a structure layer of the terrain's size is
\* projected back onto the grid.
RoundTrip(c) ==
    /\ LET world == WorldGeometry_grid_position(options, c, "release")
       IN  probe' = [op |-> "round_trip", c |-> c, world |-> world,
                     result |-> Terrain_world_to_grid(options, world)]
    /\ UNCHANGED options

\* A world position is surveyed, as placing and try_place do with the position
\* of a pointer hit.
SurveyPosition(position) ==
    /\ probe' = [op |-> "survey", position |-> position,
                 index |-> Terrain_world_to_grid(options, position),
                 result |-> Terrain_survey(options, position)]
    /\ UNCHANGED options

\* Positions from one tile before the terrain to one tile past it, on each
\* axis, in steps of half a tile.
ProbePositions(sz) ==
    ((-sz[1] - 2)..(sz[1] + 2)) \X ((-sz[2] - 2)..(sz[2] + 2))

TerrainNext ==
    /\ \/ \E position \in ProbePositions(options) : WorldToGrid(position)
       \/ \E c \in Cells(options) : RoundTrip(c)
       \/ \E position \in ProbePositions(options) : SurveyPosition(position)
    /\ UNCHANGED <<geometryVars, classifyVars, mappingVars, surveyVars, gridVars,
                   structureVars, phaseVars, layerVars, castleVars, gameVars,
                   expiryVars, meshVars, buildingVars>>

\* ------------------------------------------------------------------------
\* HeightOnlyCell (src/src/terrain/mesh.rs) and its classification into a
\* SurveyedCell.  Heights are in tenths: -0.1 is -1.
\* ------------------------------------------------------------------------

\* Corner heights range over -MaxHeight..MaxHeight tenths.
MaxHeight == 4

\* pub fn new(value: [f64; 4]) -> Self
HeightOnlyCell_new(value) == value

\* enum SurveyedCell { Ground(cell), Beach, Water }, as matched by try_place.
Ground(c) == [kind |-> "Ground", cell |-> c]

Beach == [kind |-> "Beach"]

Water == [kind |-> "Water"]

\* A classification that calls a cell Water as soon as one corner is below zero.
SurveyedCell_from_any(c) ==
    IF \E i \in 1..4 : c[i] < 0 THEN Water ELSE Ground(c)

\* The classification of a cell by its four corners: all below zero is Water,
\* some but not all below zero is Beach, none below zero is Ground.
SurveyedCell_from(c) ==
    IF \A i \in 1..4 : c[i] < 0 THEN Water
    ELSE IF \E i \in 1..4 : c[i] < 0 THEN Beach
    ELSE Ground(c)

SurveyInit ==
    /\ \E value \in [1..4 -> (-MaxHeight)..MaxHeight] : cell = HeightOnlyCell_new(value)
    /\ surveyed = Pending

SurveyIdle ==
    /\ cell = HeightOnlyCell_new([i \in 1..4 |-> 0])
    /\ surveyed = Pending

SurveyCell ==
    /\ surveyed = Pending
    /\ surveyed' = SurveyedCell_from(cell)
    /\ UNCHANGED cell

SurveyNext ==
    /\ SurveyCell
    /\ UNCHANGED <<geometryVars, classifyVars, mappingVars, terrainVars, gridVars,
                   structureVars, phaseVars, layerVars, castleVars, gameVars,
                   expiryVars, meshVars, buildingVars>>

\* ------------------------------------------------------------------------
\* Grid<T>  (src/src/model/grid.rs)
\* ------------------------------------------------------------------------

\* Largest width and height of a source Grid.
MaxGridSide == 3

\* Largest factor handed to duplicate.
MaxFactor == 3

\* slice.chunks(n): consecutive pieces of n items, the last one shorter when
\* the length is no multiple of n.
Chunks(items, n) ==
    [k \in 1..((Len(items) + n - 1) \div n) |->
        SubSeq(items, (k - 1) * n + 1,
               IF k * n < Len(items) THEN k * n ELSE Len(items))]

\* slice.windows(2): every pair of neighbours, none for fewer than two items.
Windows2(items) == [i \in 1..(Len(items) - 1) |-> <<items[i], items[i + 1]>>]

\* Iterator::flatten over a sequence of sequences.
RECURSIVE Flatten(_)
Flatten(seqs) ==
    IF Len(seqs) = 0 THEN <<>> ELSE Head(seqs) \o Flatten(Tail(seqs))

\* n copies of v: (0..n).map(move |_| v).
Repeat(v, n) == [i \in 1..n |-> v]

\* pub fn new(size, items) -> Self { assert!(size.0 * size.1 == items.len()); .. }
Grid_new(sz, items) ==
    IF sz[1] * sz[2] = Len(items)
    THEN [panic |-> FALSE, size |-> sz, items |-> items]
    ELSE Panic

\* pub fn from_rows(rows) -> Self: the width is that of rows[0].
Grid_from_rows(rows) ==
    IF Len(rows) = 0 THEN Panic
    ELSE Grid_new(<<Len(rows[1]), Len(rows)>>, Flatten(rows))

\* pub fn rows(self) -> Vec<Vec<T>>: the items in chunks of size.0.
Grid_rows(g) == Chunks(g.items, g.size[1])

\* pub fn grow(self) -> Self: a default cell after each row, and a row of
\* defaults after the last.
Grid_grow(g) ==
    LET new_width == g.size[1] + 1
        rows == Grid_rows(g)
    IN  Grid_from_rows([r \in 1..Len(rows) |-> Append(rows[r], 0)]
                       \o <<Repeat(0, new_width)>>)

\* duplicate with the two factors taken for one another.
Grid_duplicate_swapped(g, factor) ==
    LET sz == <<g.size[1] * factor[1], g.size[2] * factor[2]>>
        wide == Flatten([i \in 1..Len(g.items) |-> Repeat(g.items[i], factor[2])])
        rows == Chunks(wide, g.size[1] * factor[2])
    IN  Grid_new(sz, Flatten(Flatten([r \in 1..Len(rows) |-> Repeat(rows[r], factor[1])])))

\* pub fn duplicate(self, factor) -> Self: every item factor.0 times, the
\* result cut in rows of the new width, every row factor.1 times.
Grid_duplicate(g, factor) ==
    LET sz == <<g.size[1] * factor[1], g.size[2] * factor[2]>>
        wide == Flatten([i \in 1..Len(g.items) |-> Repeat(g.items[i], factor[1])])
        rows == Chunks(wide, sz[1])
    IN  Grid_new(sz, Flatten(Flatten([r \in 1..Len(rows) |-> Repeat(rows[r], factor[2])])))

\* The first step of expand on one row: from the windows of two neighbours,
\* [l, l], [l, r], [r, r] for the first and [l, r], [r, r] for the others.
ExpandRow(row) ==
    LET pairs == Windows2(row)
    IN  Flatten([i \in 1..Len(pairs) |->
            IF i = 1
            THEN << <<pairs[i][1], pairs[i][1]>>,
                    <<pairs[i][1], pairs[i][2]>>,
                    <<pairs[i][2], pairs[i][2]>> >>
            ELSE << <<pairs[i][1], pairs[i][2]>>,
                    <<pairs[i][2], pairs[i][2]>> >>])

\* pub fn expand(self) -> Grid<Vec<T>>: the rows expanded, then from the
\* windows of two neighbouring rows r0 (top doubled), r1 (top over bottom), r2
\* (bottom doubled) for the first and r1, r2 for the others.
Grid_expand(g) ==
    LET rows == Chunks(g.items, g.size[1])
        items == [r \in 1..Len(rows) |-> ExpandRow(rows[r])]
        pairs == Windows2(items)
        doubled(row) == [k \in 1..Len(row) |-> row[k] \o row[k]]
        zipped(top, bottom) ==
            [k \in 1..(IF Len(top) < Len(bottom) THEN Len(top) ELSE Len(bottom)) |->
                top[k] \o bottom[k]]
        expanded == Flatten([i \in 1..Len(pairs) |->
            LET r2 == doubled(pairs[i][2])
                r1 == zipped(pairs[i][1], pairs[i][2])
                r0 == doubled(pairs[i][1])
            IN  IF i = 1 THEN <<r0, r1, r2>> ELSE <<r1, r2>>])
    IN  Grid_new(<<g.size[1] * 2 - 1, g.size[2] * 2 - 1>>, Flatten(expanded))

\* The grids of the tests: the numbers from 1, row by row.
Numbered(w, h) == Grid_new(<<w, h>>, [i \in 1..(w * h) |-> i])

GridInit ==
    /\ \E w \in 1..MaxGridSide, h \in 1..MaxGridSide : sourceGrid = Numbered(w, h)
    /\ made = Pending

GridIdle ==
    /\ sourceGrid = Numbered(1, 1)
    /\ made = Pending

\* Grid::new over the items of the grid with a size that may not fit them.
GridNew(sz) ==
    /\ made' = [op |-> "new", size |-> sz, result |-> Grid_new(sz, sourceGrid.items)]
    /\ UNCHANGED sourceGrid

\* Grid::from_rows over the rows of the grid, or over these rows with one item
\* less in the last.
GridFromRows(ragged) ==
    /\ LET rows == Grid_rows(sourceGrid)
           last == rows[Len(rows)]
           given == IF ragged
                    THEN [rows EXCEPT ![Len(rows)] = SubSeq(last, 1, Len(last) - 1)]
                    ELSE rows
       IN  made' = [op |-> "from_rows", rows |-> given, result |-> Grid_from_rows(given)]
    /\ UNCHANGED sourceGrid

\* grow consumes the grid; the grown grid is the one the program goes on with.
GridGrow ==
    /\ sourceGrid.size[1] < MaxGridSide
    /\ sourceGrid.size[2] < MaxGridSide
    /\ LET r == Grid_grow(sourceGrid)
       IN  /\ made' = [op |-> "grow", from |-> sourceGrid, result |-> r]
           /\ sourceGrid' = IF r = Panic THEN sourceGrid ELSE r

GridDuplicate(factor) ==
    /\ made' = [op |-> "duplicate", factor |-> factor,
                result |-> Grid_duplicate(sourceGrid, factor)]
    /\ UNCHANGED sourceGrid

GridExpand ==
    /\ made' = [op |-> "expand", result |-> Grid_expand(sourceGrid)]
    /\ UNCHANGED sourceGrid

GridNext ==
    /\ \/ \E sz \in (1..MaxGridSide) \X (1..MaxGridSide) : GridNew(sz)
       \/ \E ragged \in BOOLEAN : GridFromRows(ragged)
       \/ GridGrow
       \/ \E factor \in (1..MaxFactor) \X (1..MaxFactor) : GridDuplicate(factor)
       \/ GridExpand
    /\ UNCHANGED <<geometryVars, classifyVars, mappingVars, terrainVars,
                   surveyVars, structureVars, phaseVars, layerVars, castleVars,
                   gameVars, expiryVars, meshVars, buildingVars>>

\* ------------------------------------------------------------------------
\* StructureLayers and the systems that write it  (src/src/building.rs)
\* ------------------------------------------------------------------------

\* Side of the square structure layer (settings.size()).
LayerSide == 3

\* Most construction events sent in a run of the game.
MaxEvents == 2

\* The cells of the layer, and their place in the row-major order of layout().
GridCells(side) == (0..(side - 1)) \X (0..(side - 1))

LayerCells == GridCells(LayerSide)

\* Cell d comes before cell c in layout(): row by row, each row by column.
LayoutBefore(d, c) == d[2] < c[2] \/ (d[2] = c[2] /\ d[1] < c[1])

\* The grid g itself, as a value computed once: every cell of a grid that was
\* written is stored, none is looked up again in the grid it was made from.
Stored(g) == CHOOSE h \in {g} : h = h

\* SquareGrid::new_flat(size): every cell the default, StructureEntity::Empty.
SquareGrid_new_flat(side) == [c \in GridCells(side) |-> Empty]

\* SquareGrid::get(p): the cell at p, None off the grid.
SquareGrid_get(entities, p) ==
    IF p \in DOMAIN entities THEN Some(entities[p]) ELSE None

\* SquareGrid::set(p, value) for p on the grid.
SquareGrid_set(entities, p, value) == Stored([entities EXCEPT ![p] = value])

\* SquareGrid::outline(p0, p1, value): the border of the rectangle [p0, p1].
SquareGrid_outline(entities, p0, p1, value) ==
    Stored([c \in DOMAIN entities |->
        IF /\ p0[1] <= c[1] /\ c[1] <= p1[1]
           /\ p0[2] <= c[2] /\ c[2] <= p1[2]
           /\ (c[1] = p0[1] \/ c[1] = p1[1] \/ c[2] = p0[2] \/ c[2] = p1[2])
        THEN value
        ELSE entities[c]])

\* SquareGrid::around(c): the nine get() around c.
SquareGrid_around(entities, c) ==
    Around_map(Around_center(c),
               [p \in Around_entries(Around_center(c)) |-> SquareGrid_get(entities, p)])

\* affected() that returns the cell as it is.
StructureEntity_affected_same(se) == se

\* fn affected(&self) -> Self
StructureEntity_affected(se) ==
    IF se.tag = "Current" THEN Affected(se.structure, se.entity) ELSE se

\* StructureLayers::new(size)
StructureLayers_new(side) ==
    [entities |-> SquareGrid_new_flat(side), spawned |-> 0, live |-> {},
     classified |-> [c \in {} |-> Unknown], log |-> <<>>]

\* pub fn create_castle(&mut self, center, size, player): the outline of walls
\* from center - size / 2 to center + size / 2, and a cannon on the center.
StructureLayers_create_castle(layers, center, sz, player) ==
    LET p0 == <<center[1] - sz[1] \div 2, center[2] - sz[2] \div 2>>
        p1 == <<center[1] + sz[1] \div 2, center[2] + sz[2] \div 2>>
        walls == SquareGrid_outline(layers.entities, p0, p1, New(Wall(player)))
    IN  [layers EXCEPT !.entities = SquareGrid_set(walls, center, New(Cannon(player)))]

\* fn set(&mut self, grid, structure): the cell becomes New(structure), then
\* every cell around it that is on the grid becomes its affected() self.
StructureLayers_set(layers, at, structure) ==
    LET written == SquareGrid_set(layers.entities, at, New(structure))
        near == Around_entries(Around_center(at))
    IN  [layers EXCEPT
            !.entities = Stored([c \in DOMAIN written |->
                            IF c \in near /\ SquareGrid_get(written, c).some
                            THEN StructureEntity_affected(written[c])
                            ELSE written[c]]),
            !.log = Append(@, [step |-> "set", at |-> at, structure |-> structure])]

\* refresh_entities without its Affected cannon arm: an affected cannon is
\* left as it is.
StructureLayers_refresh_entities_walls(layers) ==
    LET ents == layers.entities
        creates(c) == \/ ents[c].tag = "New"
                      \/ ents[c].tag = "Affected" /\ ents[c].structure.kind = "Wall"
        creating == {c \in DOMAIN ents : creates(c)}
        before(c) == {d \in creating : LayoutBefore(d, c)}
    IN  [layers EXCEPT
            !.entities = Stored([c \in DOMAIN ents |->
                            IF c \in creating
                            THEN Current(ents[c].structure,
                                         layers.spawned + Cardinality(before(c)) + 1)
                            ELSE ents[c]]),
            !.spawned = @ + Cardinality(creating),
            !.log = Append(@, [step |-> "refresh"])]

\* fn refresh_entities(&mut self, ..): over layout(), a New cell and an
\* Affected wall get a newly spawned entity (create_entity; a wall is
\* classified from its neighbourhood there), the entity of an Affected wall
\* is despawned, an Affected cannon keeps its entity; the cells are written
\* once the loop is over.  live is the set of entities spawned and not
\* despawned.
StructureLayers_refresh_entities(layers) ==
    LET ents == layers.entities
        creates(c) == \/ ents[c].tag = "New"
                      \/ ents[c].tag = "Affected" /\ ents[c].structure.kind = "Wall"
        creating == {c \in DOMAIN ents : creates(c)}
        rank(c) == Cardinality({d \in creating : LayoutBefore(d, c)})
        walls == {c \in creating : ents[c].structure.kind = "Wall"}
        despawned == {ents[c].entity : c \in {d \in walls : ents[d].tag = "Affected"}}
        created == {layers.spawned + rank(c) + 1 : c \in creating}
    IN  [layers EXCEPT
            !.entities = Stored([c \in DOMAIN ents |->
                            IF c \in creating
                            THEN Current(ents[c].structure, layers.spawned + rank(c) + 1)
                            ELSE IF ents[c].tag = "Affected"
                            THEN Current(ents[c].structure, ents[c].entity)
                            ELSE ents[c]]),
            !.spawned = @ + Cardinality(creating),
            !.live = (@ \ despawned) \cup created,
            !.classified = [c \in walls |-> Classify(SquareGrid_around(ents, c))],
            !.log = Append(@, [step |-> "refresh"])]

\* refresh_terrain with the refresh moved out of the loop: every event is
\* written, then the entities are refreshed once.
RECURSIVE SetAll(_, _)
SetAll(layers, events) ==
    IF events = <<>> THEN layers
    ELSE SetAll(StructureLayers_set(layers, Head(events).at, Head(events).structure),
                Tail(events))

refresh_terrain_batched(layers, events) ==
    IF events = <<>> THEN layers
    ELSE StructureLayers_refresh_entities(SetAll(layers, events))

\* fn refresh_terrain(..): for ev in modified.read() {
\*     structures.set(grid, ev.structure().clone());
\*     structures.refresh_entities(&mut commands, &resources); }
RECURSIVE refresh_terrain(_, _)
refresh_terrain(layers, events) ==
    IF events = <<>> THEN layers
    ELSE refresh_terrain(
             StructureLayers_refresh_entities(
                 StructureLayers_set(layers, Head(events).at, Head(events).structure)),
             Tail(events))

\* The ConnectingWall of every cell of the layer, as create_entity computes it.
ClassifyLayer(entities) ==
    [c \in DOMAIN entities |-> Classify(SquareGrid_around(entities, c))]

StructuresInit ==
    /\ structures = StructureLayers_new(LayerSide)
    /\ modified = <<>>
    /\ sent = 0
    /\ phase = "startup"
    /\ drained = <<>>
    /\ passes = <<>>

StructuresIdle ==
    /\ structures = StructureLayers_new(0)
    /\ modified = <<>>
    /\ sent = 0
    /\ phase = "startup"
    /\ drained = <<>>
    /\ passes = <<>>

\* fn setup_structures(..): a castle for each player, two cells in from
\* opposite corners, then refresh_entities.
SetupStructures ==
    /\ phase = "startup"
    /\ LET one == StructureLayers_create_castle(
                      StructureLayers_new(LayerSide), <<1, 1>>, <<2, 2>>, "One")
           two == StructureLayers_create_castle(
                      one, <<LayerSide - 2, LayerSide - 2>>, <<2, 2>>, "Two")
       IN  structures' = StructureLayers_refresh_entities(two)
    /\ phase' = "game"
    /\ passes' = <<>>
    /\ UNCHANGED <<modified, sent, drained>>

\* try_place on a click over ground: modified.send(ConstructionEvent::new(
\*     location, Structure::Wall(Wall { player: Player::One })))
SendConstruction(at) ==
    /\ phase = "game"
    /\ sent < MaxEvents
    /\ modified' = Append(modified, [at |-> at, structure |-> Wall("One")])
    /\ sent' = sent + 1
    /\ UNCHANGED <<structures, phase, drained, passes>>

\* The refresh_terrain system runs: it reads every event sent since its last
\* run.  The log kept is that of this run.
RefreshTerrain ==
    /\ phase = "game"
    /\ structures' = refresh_terrain([structures EXCEPT !.log = <<>>], modified)
    /\ drained' = modified
    /\ modified' = <<>>
    /\ passes' = IF modified = <<>> THEN passes ELSE <<>>
    /\ UNCHANGED <<sent, phase>>

\* Every cell of the layer is classified again, nothing being written, once
\* the events sent have been applied.
Reclassify ==
    /\ phase = "game"
    /\ modified = <<>>
    /\ Len(passes) < 2
    /\ passes' = Append(passes, ClassifyLayer(structures.entities))
    /\ UNCHANGED <<structures, modified, sent, phase, drained>>

StructuresNext ==
    /\ \/ SetupStructures
       \/ \E at \in LayerCells : SendConstruction(at)
       \/ RefreshTerrain
       \/ Reclassify
    /\ UNCHANGED <<geometryVars, classifyVars, mappingVars, terrainVars,
                   surveyVars, gridVars, phaseVars, layerVars, castleVars,
                   gameVars, expiryVars, meshVars, buildingVars>>

\* ------------------------------------------------------------------------
\* Phase  (src/src/model.rs)
\* ------------------------------------------------------------------------

\* Most calls of Phase::next followed.
MaxPhaseSteps == 120

\* pub enum Phase { Fortify(Player), Arm(Player), Target(Player) }
Fortify(player) == [kind |-> "Fortify", player |-> player]

Arm(player) == [kind |-> "Arm", player |-> player]

Target(player) == [kind |-> "Target", player |-> player]

Players == {"One", "Two"}

Phases == {Fortify(p) : p \in Players} \cup {Arm(p) : p \in Players}
              \cup {Target(p) : p \in Players}

\* impl Default for Phase: Phase::Fortify(Player::default()), Player::One.
Phase_default == Fortify("One")

\* next with the targeting of the two players taken in the other order.
Phase_next_two_first(self) ==
    IF self = Fortify("One") THEN Arm("One")
    ELSE IF self = Arm("One") THEN Fortify("Two")
    ELSE IF self = Fortify("Two") THEN Arm("Two")
    ELSE IF self = Arm("Two") THEN Target("Two")
    ELSE IF self = Target("Two") THEN Target("One")
    ELSE Fortify("One")

\* pub fn next(&self) -> Self
Phase_next(self) ==
    IF self = Fortify("One") THEN Arm("One")
    ELSE IF self = Arm("One") THEN Fortify("Two")
    ELSE IF self = Fortify("Two") THEN Arm("Two")
    ELSE IF self = Arm("Two") THEN Target("One")
    ELSE IF self = Target("One") THEN Target("Two")
    ELSE Fortify("One")

PhaseInit ==
    /\ gamePhase = Phase_default
    /\ history = <<>>

PhaseIdle ==
    /\ gamePhase = Phase_default
    /\ history = <<>>

\* The game moves to the next phase.
NextPhase ==
    /\ Len(history) < MaxPhaseSteps
    /\ gamePhase' = Phase_next(gamePhase)
    /\ history' = Append(history, gamePhase)

PhaseNext ==
    /\ NextPhase
    /\ UNCHANGED <<geometryVars, classifyVars, mappingVars, terrainVars,
                   surveyVars, gridVars, structureVars, layerVars, castleVars,
                   gameVars, expiryVars, meshVars, buildingVars>>


\* ------------------------------------------------------------------------
\* terrain/textures.rs: Layers, the colour ramp of the terrain texture.
\* Heights and thresholds are f32 in the source; the model counts them in
\* hundredths, the resolution of the default table.
\* ------------------------------------------------------------------------

\* Sampled values range over -MaxLevel..MaxLevel hundredths.
MaxLevel == 105

\* struct Layer(f32, Color)
Layer(threshold, color) == [threshold |-> threshold, color |-> color]

\* Color::RED
RED == <<255, 0, 0>>

\* impl Default for Layers: the table in the order the source lists it.
Layers_default ==
    << Layer(-50, <<51, 100, 197>>),
       Layer(-95, <<57, 106, 203>>),
       Layer(4, <<210, 208, 125>>),
       Layer(55, <<86, 152, 23>>),
       Layer(85, <<62, 107, 18>>),
       Layer(100, <<27, 55, 32>>) >>

\* Layers::get with the comparison made strict.
RECURSIVE Layers_get_strict(_, _)
Layers_get_strict(table, v) ==
    IF table = <<>> THEN RED
    ELSE IF v < Head(table).threshold THEN Head(table).color
    ELSE Layers_get_strict(Tail(table), v)

\* Layers::get: the colour of the first layer with v <= layer.0, else RED.
RECURSIVE Layers_get(_, _)
Layers_get(table, v) ==
    IF table = <<>> THEN RED
    ELSE IF v <= Head(table).threshold THEN Head(table).color
    ELSE Layers_get(Tail(table), v)

\* The tables looked up: the default one, the empty one, and the default
\* one cut short or reordered.
LayerTables ==
    { Layers_default,
      <<>>,
      SubSeq(Layers_default, 1, 3),
      [i \in 1..Len(Layers_default) |-> Layers_default[Len(Layers_default) + 1 - i]] }

LayersInit ==
    /\ layerTable \in LayerTables
    /\ sampled = None

LayersIdle ==
    /\ layerTable = <<>>
    /\ sampled = None

\* layers.get(v) for one value.
LayersGet ==
    /\ \E v \in -MaxLevel..MaxLevel :
         sampled' = Some([v |-> v, color |-> Layers_get(layerTable, v)])
    /\ UNCHANGED layerTable

LayersNext ==
    /\ LayersGet
    /\ UNCHANGED <<geometryVars, classifyVars, mappingVars, terrainVars,
                   surveyVars, gridVars, structureVars, phaseVars, castleVars,
                   gameVars, expiryVars, meshVars, buildingVars>>


\* ------------------------------------------------------------------------
\* A castle built on an empty layer: create_castle, then the refresh that
\* spawns and classifies its walls  (src/src/building.rs)
\* ------------------------------------------------------------------------

\* Side of the layer a castle is built on, and the largest castle size.
CastleSide == 7

MaxCastleSize == 4

\* The castles that lie on the layer whole.
CastleFits(center, sz) ==
    /\ center[1] - sz[1] \div 2 >= 0 /\ center[1] + sz[1] \div 2 < CastleSide
    /\ center[2] - sz[2] \div 2 >= 0 /\ center[2] + sz[2] \div 2 < CastleSide

CastleInit ==
    /\ castle = None
    /\ placed = None

CastleIdle ==
    /\ castle = None
    /\ placed = None

\* structures.create_castle(center, size, player) on StructureLayers::new,
\* then structures.refresh_entities(..).
CreateCastle ==
    /\ castle = None
    /\ \E center \in GridCells(CastleSide),
          sz \in (2..MaxCastleSize) \X (2..MaxCastleSize),
          player \in {"One", "Two"} :
         /\ CastleFits(center, sz)
         /\ castle' = Some([center |-> center, size |-> sz, player |-> player,
                            layers |-> StructureLayers_refresh_entities(
                                StructureLayers_create_castle(
                                    StructureLayers_new(CastleSide), center, sz, player))])
    /\ UNCHANGED placed

\* refresh_terrain reading one ConstructionEvent for the cell at, sent by
\* try_place: structures.set(grid, structure), then refresh_entities.  The
\* layer before the event and the layer between the two calls are kept.
PlaceOne(at) ==
    /\ castle # None
    /\ placed = None
    /\ LET before == [castle.v.layers EXCEPT !.log = <<>>]
           ev == [at |-> at, structure |-> Wall("One")]
       IN  placed' = Some([at |-> at,
                           structure |-> ev.structure,
                           before |-> before,
                           written |-> StructureLayers_set(before, at, ev.structure),
                           after |-> refresh_terrain(before, <<ev>>)])
    /\ UNCHANGED castle

CastleNext ==
    /\ \/ CreateCastle
       \/ \E at \in GridCells(CastleSide) : PlaceOne(at)
    /\ UNCHANGED <<geometryVars, classifyVars, mappingVars, terrainVars,
                   surveyVars, gridVars, structureVars, phaseVars, layerVars,
                   gameVars, expiryVars, meshVars, buildingVars>>


\* ------------------------------------------------------------------------
\* progress_game and the systems that send TerrainModifiedEvent
\* (src/src/main.rs).  A frame runs the state transition, which makes the
\* phase set through NextState the current State, and then the Update
\* systems; the placing systems and progress_game are not ordered against
\* each other, so they run in either order.
\* ------------------------------------------------------------------------

\* Frames of the game that are followed.
MaxFrames == 6

\* The Update systems of the model.
UpdateSystems == {"place", "progress_game"}

\* Phase::player
Phase_player(self) == self.player

\* Phase::next taken k times.
RECURSIVE Phase_steps(_, _)
Phase_steps(self, k) == IF k = 0 THEN self ELSE Phase_steps(Phase_next(self), k - 1)

GameInit ==
    /\ statePhase = Phase_default
    /\ nextState = None
    /\ activePlayer = "One"
    /\ unread = 0
    /\ ran = {}
    /\ frames = 0
    /\ tick = None

GameIdle ==
    /\ statePhase = Phase_default
    /\ nextState = None
    /\ activePlayer = "One"
    /\ unread = 0
    /\ ran = {}
    /\ frames = 0
    /\ tick = None

\* The state transition at the start of a frame: a phase set through
\* next_phase.set(..) becomes the State<Phase>.
StateTransition ==
    /\ ran = UpdateSystems
    /\ frames < MaxFrames
    /\ statePhase' = IF nextState # None THEN nextState.v ELSE statePhase
    /\ nextState' = None
    /\ ran' = {}
    /\ frames' = frames + 1
    /\ UNCHANGED <<activePlayer, unread, tick>>

\* place_wall.run_if(should_place_wall) and place_cannon.run_if(
\* should_place_cannon): with a click picked, one TerrainModifiedEvent is
\* sent in a Fortify phase (a wall) or an Arm phase (a cannon).
Place(picked) ==
    /\ "place" \notin ran
    /\ unread' = IF picked /\ statePhase.kind \in {"Fortify", "Arm"}
                 THEN unread + 1 ELSE unread
    /\ ran' = ran \cup {"place"}
    /\ UNCHANGED <<statePhase, nextState, activePlayer, frames, tick>>

\* pub fn progress_game(phase, next_phase, player, modified, ..): for each
\* event read, after = phase.get().next(); *player = ActivePlayer(
\* after.player()); next_phase.set(after).  phase is the State<Phase> of the
\* frame for every event of the loop.
ProgressGame ==
    /\ "progress_game" \notin ran
    /\ LET after == Phase_next(statePhase)
       IN  IF unread = 0
           THEN UNCHANGED <<nextState, activePlayer, tick>>
           ELSE /\ activePlayer' = Phase_player(after)
                /\ nextState' = Some(after)
                /\ tick' = Some([events |-> unread, before |-> statePhase,
                                 set |-> after, player |-> Phase_player(after)])
    /\ unread' = 0
    /\ ran' = ran \cup {"progress_game"}
    /\ UNCHANGED <<statePhase, frames>>

GameNext ==
    /\ \/ StateTransition
       \/ \E picked \in BOOLEAN : Place(picked)
       \/ ProgressGame
    /\ UNCHANGED <<geometryVars, classifyVars, mappingVars, terrainVars,
                   surveyVars, gridVars, structureVars, phaseVars, layerVars,
                   castleVars, expiryVars, meshVars, buildingVars>>


\* ------------------------------------------------------------------------
\* helpers.rs: Expires and the expirations system.  Time::elapsed_seconds()
\* is counted in whole ticks.  A frame applies a pending ExpirationControl,
\* advances the time, runs the keyboard system of Update and then, in
\* PostUpdate, expirations when the control is Running.
\* ------------------------------------------------------------------------

\* Longest lifetime, largest advance of the time in a frame, the time up to
\* which a paused game is followed, and the most presses of the pause key.
MaxLifetime == 2

MaxDelta == 2

MaxPausedTime == 3

MaxToggles == 2

\* The time up to which the game is followed: an entity first seen by the
\* end of the pauses can still outlive its lifetime.
MaxElapsed == MaxPausedTime + MaxDelta + MaxLifetime + 1

\* The entities that carry Expires: an explosion and the light spawned as
\* its child (with_children).
Expiring == {"Explosion", "Explosion:Light"}

Children(e) == IF e = "Explosion" THEN {"Explosion:Light"} ELSE {}

\* Expires::after(lifetime), on an entity the system has not seen yet.
Expires_after(lifetime) ==
    [lifetime |-> lifetime, expiration |-> None, alive |-> TRUE,
     observed |-> None, despawned |-> None]

\* expirations with the comparison timer.elapsed_seconds() >= expiration.
expirations_at_expiration(entities, now) ==
    LET expired == {e \in DOMAIN entities :
                       /\ entities[e].alive
                       /\ entities[e].expiration # None
                       /\ now >= entities[e].expiration.v}
        gone == expired \cup UNION {Children(e) : e \in expired}
    IN  [e \in DOMAIN entities |->
            IF ~entities[e].alive THEN entities[e]
            ELSE IF e \in gone
            THEN [entities[e] EXCEPT !.alive = FALSE, !.despawned = Some(now)]
            ELSE IF entities[e].expiration = None
            THEN [entities[e] EXCEPT
                     !.expiration = Some(now + entities[e].lifetime),
                     !.observed = Some(now)]
            ELSE entities[e]]

\* fn expirations(commands, expires, timer): an entity with an expiration
\* is despawned, with its children, when elapsed_seconds() > expiration; an
\* entity without one gets expiration = elapsed_seconds() + lifetime.
\* observed and despawned record the time of the two events.
expirations(entities, now) ==
    LET expired == {e \in DOMAIN entities :
                       /\ entities[e].alive
                       /\ entities[e].expiration # None
                       /\ now > entities[e].expiration.v}
        gone == expired \cup UNION {Children(e) : e \in expired}
    IN  [e \in DOMAIN entities |->
            IF ~entities[e].alive THEN entities[e]
            ELSE IF e \in gone
            THEN [entities[e] EXCEPT !.alive = FALSE, !.despawned = Some(now)]
            ELSE IF entities[e].expiration = None
            THEN [entities[e] EXCEPT
                     !.expiration = Some(now + entities[e].lifetime),
                     !.observed = Some(now)]
            ELSE entities[e]]

\* The explosion and its light as they are spawned: the light is given a
\* lifetime no longer than the explosion's (0.05 against 5. and 2.5).
ExpiryInit ==
    /\ control \in {"Running", "Paused"}
    /\ nextControl = None
    /\ elapsed = 0
    /\ toggles = 0
    /\ \E parent \in 0..MaxLifetime, child \in 0..MaxLifetime :
          /\ child <= parent
          /\ expiring = [e \in Expiring |->
                            Expires_after(IF e = "Explosion" THEN parent ELSE child)]
    /\ lastFrame = None

ExpiryIdle ==
    /\ control = "Running"
    /\ nextControl = None
    /\ elapsed = 0
    /\ toggles = 0
    /\ expiring = [e \in {} |-> Expires_after(0)]
    /\ lastFrame = None

\* One frame.  StateTransition: a control set in the frame before becomes
\* the state.  Update: developer_keyboard sets the other control when KeyE
\* was just pressed.  PostUpdate: expirations.run_if(in_state(Running)).
Frame(delta, pressed) ==
    LET running == IF nextControl # None THEN nextControl.v ELSE control
        now == elapsed + delta
    IN  /\ delta > 0 => now <= (IF running = "Paused" THEN MaxPausedTime ELSE MaxElapsed)
        /\ pressed => toggles < MaxToggles
        /\ control' = running
        /\ elapsed' = now
        /\ nextControl' = IF pressed
                          THEN Some(IF running = "Running" THEN "Paused" ELSE "Running")
                          ELSE None
        /\ toggles' = IF pressed THEN toggles + 1 ELSE toggles
        /\ expiring' = IF running = "Running" THEN expirations(expiring, now)
                       ELSE expiring
        /\ lastFrame' = Some([control |-> running,
                              despawned |-> {e \in Expiring :
                                  expiring[e].alive /\ ~expiring'[e].alive}])

\* A frame in which the time advances.
AdvancingFrame == \E delta \in 1..MaxDelta, pressed \in BOOLEAN : Frame(delta, pressed)

ExpiryNext ==
    /\ \E delta \in 0..MaxDelta, pressed \in BOOLEAN : Frame(delta, pressed)
    /\ UNCHANGED <<geometryVars, classifyVars, mappingVars, terrainVars,
                   surveyVars, gridVars, structureVars, phaseVars, layerVars,
                   castleVars, gameVars, meshVars, buildingVars>>


\* ------------------------------------------------------------------------
\* terrain.rs: the mesh of the terrain, built over its noise map.
\* ------------------------------------------------------------------------

\* Largest side of a meshed terrain, in tiles, and largest resolution.
MaxMeshSide == 6

MaxResolution == 2

\* TerrainOptions::noise: the size of the noise map,
\*     let size = self.size / self.resolution;  .set_size(size.x, size.y)
TerrainOptions_noise_size(sz, resolution) ==
    <<sz[1] \div resolution, sz[2] \div resolution>>

\* fn mesh(&self): one vertex for each grid point of size + UVec2::ONE (points), row
\* by row, each with the index into the noise map it reads
\* (grid / resolution), and six triangle indices for each tile.
Terrain_mesh(sz, resolution) ==
    LET points == <<sz[1] + 1, sz[2] + 1>>
        vertex(k) == LET c == (k - 1) % points[1]
                         r == (k - 1) \div points[1]
                     IN  [grid |-> <<c, r>>,
                          index |-> <<c \div resolution, r \div resolution>>]
        tile(t) == LET c == t % (points[1] - 1)
                       r == t \div (points[1] - 1)
                       i == r * points[1]
                       l == (r + 1) * points[1]
                   IN  <<i + c, l + c, l + c + 1, i + c, l + c + 1, i + c + 1>>
    IN  [grid_noise |-> [k \in 1..(points[1] * points[2]) |-> vertex(k)],
         indices |-> [n \in 1..(6 * (points[1] - 1) * (points[2] - 1)) |->
                         tile((n - 1) \div 6)[((n - 1) % 6) + 1]]]

\* TerrainOptions { size, resolution: UVec2::splat(resolution) }
MeshInit ==
    /\ meshOptions \in [size : (1..MaxMeshSide) \X (1..MaxMeshSide),
                        resolution : 1..MaxResolution]
    /\ meshed = None

MeshIdle ==
    /\ meshOptions = [size |-> <<1, 1>>, resolution |-> 1]
    /\ meshed = None

\* terrain.mesh()
BuildMesh ==
    /\ meshed = None
    /\ meshed' = Some(Terrain_mesh(meshOptions.size, meshOptions.resolution))
    /\ UNCHANGED meshOptions

MeshNext ==
    /\ BuildMesh
    /\ UNCHANGED <<geometryVars, classifyVars, mappingVars, terrainVars,
                   surveyVars, gridVars, structureVars, phaseVars, layerVars,
                   castleVars, gameVars, expiryVars, buildingVars>>


\* ------------------------------------------------------------------------
\* Placing: the systems of BuildingPlugin that run with Activity::Building
\* (src/src/building.rs).  Activity, Survey and SurveyedCell are defined
\* outside the sources at hand: the activities are those developer_keyboard
\* sets, a survey is a location with its SurveyedCell.
\* ------------------------------------------------------------------------

\* Most clicks read by one run of try_place, most changes of the activity.
MaxClicks == 2

MaxActivityChanges == 4

Activities == {"Observing", "Firing", "Building"}

\* The cells a click can be surveyed at.
ClickCells == {<<0, 0>>, <<1, 0>>}

\* What terrain.survey(position) returns for the hit position of a click.
Surveys ==
    {None} \cup
    {Some([location |-> l, cell |-> c]) :
        l \in ClickCells,
        c \in {Ground(HeightOnlyCell_new([i \in 1..4 |-> 0])), Beach, Water}}

\* A Pointer<Click>: whether event.hit.position is Some, and the survey of
\* that position.
Clicks ==
    {[hit |-> FALSE, survey |-> None]} \cup {[hit |-> TRUE, survey |-> s] : s \in Surveys}

ClickSeqs == UNION {[1..n -> Clicks] : n \in 0..MaxClicks}

\* ConstructionEvent::new(coordinates, structure)
ConstructionEvent_new(coordinates, structure) ==
    [at |-> coordinates, structure |-> structure]

\* try_place that also builds on a beach.
RECURSIVE try_place_on_beach(_, _)
try_place_on_beach(terrain, events) ==
    IF events = <<>> \/ ~terrain THEN <<>>
    ELSE LET event == Head(events)
             send == IF /\ event.hit
                        /\ event.survey # None
                        /\ event.survey.v.cell.kind \in {"Ground", "Beach"}
                     THEN <<ConstructionEvent_new(event.survey.v.location, Wall("One"))>>
                     ELSE <<>>
         IN  send \o try_place_on_beach(terrain, Tail(events))

\* fn try_place(terrain, events, _placing, modified): nothing without
\* events or without a terrain; for each click with a hit position whose
\* survey is Some and whose cell is Ground, one ConstructionEvent for the
\* location of the survey, a wall of Player::One.  The result is the events
\* sent.
RECURSIVE try_place(_, _)
try_place(terrain, events) ==
    IF events = <<>> \/ ~terrain THEN <<>>
    ELSE LET event == Head(events)
             send == IF /\ event.hit
                        /\ event.survey # None
                        /\ event.survey.v.cell.kind = "Ground"
                     THEN <<ConstructionEvent_new(event.survey.v.location, Wall("One"))>>
                     ELSE <<>>
         IN  send \o try_place(terrain, Tail(events))

\* stop_placing that leaves the entity.
stop_placing_keep(entities) == entities

\* fn start_placing(commands, .., placing): if let Ok((entity, _)) =
\* placing.get_single() the entity is despawned; a Placing entity is
\* spawned.  get_single is Ok for exactly one entity.
start_placing(entities, entity) ==
    (IF Cardinality(entities) = 1 THEN {} ELSE entities) \cup {entity}

\* fn stop_placing(commands, placing): the single Placing entity, if there
\* is exactly one, is despawned.
stop_placing(entities) ==
    IF Cardinality(entities) = 1 THEN {} ELSE entities

\* The layer setup_structures leaves.
SetupLayers ==
    LET one == StructureLayers_create_castle(
                   StructureLayers_new(LayerSide), <<1, 1>>, <<2, 2>>, "One")
        two == StructureLayers_create_castle(
                   one, <<LayerSide - 2, LayerSide - 2>>, <<2, 2>>, "Two")
    IN  [StructureLayers_refresh_entities(two) EXCEPT !.log = <<>>]

BuildingInit ==
    /\ activity = "Observing"
    /\ activityChanges = 0
    /\ placingEntities = {}
    /\ placingSpawned = 0
    /\ buildLayers = SetupLayers
    /\ constructions = <<>>
    /\ lastTry = None

BuildingIdle ==
    /\ activity = "Observing"
    /\ activityChanges = 0
    /\ placingEntities = {}
    /\ placingSpawned = 0
    /\ buildLayers = StructureLayers_new(0)
    /\ constructions = <<>>
    /\ lastTry = None

\* developer_keyboard sets another Activity and the state transition runs
\* OnExit of the old one and OnEnter of the new one: stop_placing on
\* leaving Building, start_placing on entering it.
SetActivity(to) ==
    /\ to # activity
    /\ activityChanges < MaxActivityChanges
    /\ activity' = to
    /\ activityChanges' = activityChanges + 1
    /\ placingEntities' =
          IF activity = "Building" THEN stop_placing(placingEntities)
          ELSE IF to = "Building" THEN start_placing(placingEntities, placingSpawned + 1)
          ELSE placingEntities
    /\ placingSpawned' = IF to = "Building" THEN placingSpawned + 1 ELSE placingSpawned
    /\ UNCHANGED <<buildLayers, constructions, lastTry>>

\* try_place.run_if(in_state(Activity::Building)) reads the clicks of the
\* frame; the events it sends are queued for refresh_terrain.
TryPlace(terrain, events) ==
    /\ activity = "Building"
    /\ lastTry = None
    /\ constructions' = constructions \o try_place(terrain, events)
    /\ lastTry' = Some([terrain |-> terrain, clicks |-> events,
                        sent |-> try_place(terrain, events)])
    /\ UNCHANGED <<activity, activityChanges, placingEntities, placingSpawned,
                   buildLayers>>

\* refresh_terrain reads the ConstructionEvents sent and writes the layer.
RefreshBuilt ==
    /\ constructions # <<>>
    /\ buildLayers' = [refresh_terrain(buildLayers, constructions) EXCEPT !.log = <<>>]
    /\ constructions' = <<>>
    /\ UNCHANGED <<activity, activityChanges, placingEntities, placingSpawned, lastTry>>

BuildingNext ==
    /\ \/ \E to \in Activities : SetActivity(to)
       \/ \E terrain \in BOOLEAN, events \in ClickSeqs : TryPlace(terrain, events)
       \/ RefreshBuilt
    /\ UNCHANGED <<geometryVars, classifyVars, mappingVars, terrainVars,
                   surveyVars, gridVars, structureVars, phaseVars, layerVars,
                   castleVars, gameVars, expiryVars, meshVars>>

\* ------------------------------------------------------------------------
\* Specifications: each exercises one part of the program and holds the
\* rest still.
\* ------------------------------------------------------------------------

\* SPECS-BEGIN
Init ==
    /\ GeometryInit /\ ClassifyIdle /\ MappingIdle /\ TerrainIdle /\ SurveyIdle
    /\ GridIdle
    /\ StructuresIdle
    /\ PhaseIdle
    /\ LayersIdle
    /\ CastleIdle
    /\ GameIdle
    /\ ExpiryIdle
    /\ MeshIdle
    /\ BuildingIdle

Spec == Init /\ [][GeometryNext]_vars

InitClassify ==
    /\ GeometryIdle /\ ClassifyInit /\ MappingIdle /\ TerrainIdle /\ SurveyIdle
    /\ GridIdle
    /\ StructuresIdle
    /\ PhaseIdle
    /\ LayersIdle
    /\ CastleIdle
    /\ GameIdle
    /\ ExpiryIdle
    /\ MeshIdle
    /\ BuildingIdle

SpecClassify == InitClassify /\ [][ClassifyNext]_vars

InitMapping ==
    /\ GeometryIdle /\ ClassifyIdle /\ MappingInit /\ TerrainIdle /\ SurveyIdle
    /\ GridIdle
    /\ StructuresIdle
    /\ PhaseIdle
    /\ LayersIdle
    /\ CastleIdle
    /\ GameIdle
    /\ ExpiryIdle
    /\ MeshIdle
    /\ BuildingIdle

SpecMapping == InitMapping /\ [][MappingNext]_vars

InitTerrain ==
    /\ GeometryIdle /\ ClassifyIdle /\ MappingIdle /\ TerrainInit /\ SurveyIdle
    /\ GridIdle
    /\ StructuresIdle
    /\ PhaseIdle
    /\ LayersIdle
    /\ CastleIdle
    /\ GameIdle
    /\ ExpiryIdle
    /\ MeshIdle
    /\ BuildingIdle

SpecTerrain == InitTerrain /\ [][TerrainNext]_vars

InitSurvey ==
    /\ GeometryIdle /\ ClassifyIdle /\ MappingIdle /\ TerrainIdle /\ SurveyInit
    /\ GridIdle
    /\ StructuresIdle
    /\ PhaseIdle
    /\ LayersIdle
    /\ CastleIdle
    /\ GameIdle
    /\ ExpiryIdle
    /\ MeshIdle
    /\ BuildingIdle

SpecSurvey == InitSurvey /\ [][SurveyNext]_vars

InitGrid ==
    /\ GeometryIdle /\ ClassifyIdle /\ MappingIdle /\ TerrainIdle /\ SurveyIdle
    /\ GridInit
    /\ StructuresIdle
    /\ PhaseIdle
    /\ LayersIdle
    /\ CastleIdle
    /\ GameIdle
    /\ ExpiryIdle
    /\ MeshIdle
    /\ BuildingIdle

SpecGrid == InitGrid /\ [][GridNext]_vars

InitStructures ==
    /\ GeometryIdle /\ ClassifyIdle /\ MappingIdle /\ TerrainIdle /\ SurveyIdle
    /\ GridIdle
    /\ StructuresInit
    /\ PhaseIdle
    /\ LayersIdle
    /\ CastleIdle
    /\ GameIdle
    /\ ExpiryIdle
    /\ MeshIdle
    /\ BuildingIdle

SpecStructures == InitStructures /\ [][StructuresNext]_vars

InitPhase ==
    /\ GeometryIdle /\ ClassifyIdle /\ MappingIdle /\ TerrainIdle /\ SurveyIdle
    /\ GridIdle
    /\ StructuresIdle
    /\ PhaseInit
    /\ LayersIdle
    /\ CastleIdle
    /\ GameIdle
    /\ ExpiryIdle
    /\ MeshIdle
    /\ BuildingIdle

SpecPhase == InitPhase /\ [][PhaseNext]_vars

InitLayers ==
    /\ GeometryIdle /\ ClassifyIdle /\ MappingIdle /\ TerrainIdle /\ SurveyIdle
    /\ GridIdle
    /\ StructuresIdle
    /\ PhaseIdle
    /\ LayersInit
    /\ CastleIdle
    /\ GameIdle
    /\ ExpiryIdle
    /\ MeshIdle
    /\ BuildingIdle

SpecLayers == InitLayers /\ [][LayersNext]_vars

InitCastle ==
    /\ GeometryIdle /\ ClassifyIdle /\ MappingIdle /\ TerrainIdle /\ SurveyIdle
    /\ GridIdle
    /\ StructuresIdle
    /\ PhaseIdle
    /\ LayersIdle
    /\ CastleInit
    /\ GameIdle
    /\ ExpiryIdle
    /\ MeshIdle
    /\ BuildingIdle

SpecCastle == InitCastle /\ [][CastleNext]_vars

InitGame ==
    /\ GeometryIdle /\ ClassifyIdle /\ MappingIdle /\ TerrainIdle /\ SurveyIdle
    /\ GridIdle
    /\ StructuresIdle
    /\ PhaseIdle
    /\ LayersIdle
    /\ CastleIdle
    /\ GameInit
    /\ ExpiryIdle
    /\ MeshIdle
    /\ BuildingIdle

SpecGame == InitGame /\ [][GameNext]_vars

InitExpiry ==
    /\ GeometryIdle /\ ClassifyIdle /\ MappingIdle /\ TerrainIdle /\ SurveyIdle
    /\ GridIdle
    /\ StructuresIdle
    /\ PhaseIdle
    /\ LayersIdle
    /\ CastleIdle
    /\ GameIdle
    /\ ExpiryInit
    /\ MeshIdle
    /\ BuildingIdle

SpecExpiry == InitExpiry /\ [][ExpiryNext]_vars

\* The game loop keeps running frames, and the time keeps advancing.
SpecExpiryLive ==
    /\ InitExpiry
    /\ [][ExpiryNext]_vars
    /\ WF_vars(ExpiryNext)
    /\ WF_vars(AdvancingFrame /\ ExpiryNext)

InitMesh ==
    /\ GeometryIdle /\ ClassifyIdle /\ MappingIdle /\ TerrainIdle /\ SurveyIdle
    /\ GridIdle
    /\ StructuresIdle
    /\ PhaseIdle
    /\ LayersIdle
    /\ CastleIdle
    /\ GameIdle
    /\ ExpiryIdle
    /\ MeshInit
    /\ BuildingIdle

SpecMesh == InitMesh /\ [][MeshNext]_vars

InitBuilding ==
    /\ GeometryIdle /\ ClassifyIdle /\ MappingIdle /\ TerrainIdle /\ SurveyIdle
    /\ GridIdle
    /\ StructuresIdle
    /\ PhaseIdle
    /\ LayersIdle
    /\ CastleIdle
    /\ GameIdle
    /\ ExpiryIdle
    /\ MeshIdle
    /\ BuildingInit

SpecBuilding == InitBuilding /\ [][BuildingNext]_vars

\* SPECS-END

\* ------------------------------------------------------------------------
\* Claims about the classifier, checked under SpecClassify.
\* ------------------------------------------------------------------------

\* The entry e of a neighbourhood holds a wall (a cannon is not a wall).
IsWall(e) == e.some /\ e.v.tag # "Empty" /\ e.v.structure.kind = "Wall"

\* The orthogonal neighbours of a that hold a wall: N is the cell at y - 1,
\* S at y + 1, W at x - 1, E at x + 1.
OrthWalls(a) ==
    {d \in {"N", "S", "E", "W"} :
        IsWall(CASE d = "N" -> a[1][2] [] d = "S" -> a[3][2]
                 [] d = "W" -> a[2][1] [] d = "E" -> a[2][3])}

\* The diagonal positions of a neighbourhood.
Diagonals == {<<1, 1>>, <<1, 3>>, <<3, 1>>, <<3, 3>>}

\* No diagonal neighbour of a holds a wall.
NoDiagonalWall(a) == \A d \in Diagonals : ~IsWall(a[d[1]][d[2]])

\* C3: a wall cell with no wall on a diagonal whose orthogonal wall neighbours
\* are exactly {S,E}, {S,W}, {N,W}, {N,E}, {E,W} or {N,S} classifies as
\* Corner(0), Corner(90), Corner(180), Corner(270), EastWest, NorthSouth.
C3_SixConfigurations ==
    (connecting # Pending /\ IsWall(around[2][2]) /\ NoDiagonalWall(around)) =>
        /\ OrthWalls(around) = {"S", "E"} => connecting = Corner(0)
        /\ OrthWalls(around) = {"S", "W"} => connecting = Corner(90)
        /\ OrthWalls(around) = {"N", "W"} => connecting = Corner(180)
        /\ OrthWalls(around) = {"N", "E"} => connecting = Corner(270)
        /\ OrthWalls(around) = {"E", "W"} => connecting = EastWest
        /\ OrthWalls(around) = {"N", "S"} => connecting = NorthSouth

\* A wall with walls to the north and east and a cannon to the west has been
\* classified as the top-right corner.
C3_Witness ==
    /\ connecting = Corner(270)
    /\ IsWall(around[2][2])
    /\ OrthWalls(around) = {"N", "E"}
    /\ around[2][1] = Some(Current(Cannon("Two"), 1))
    /\ NoDiagonalWall(around)

\* C4 as stated: with 0, 1, 3 or 4 orthogonal neighbours occupied the
\* classification is Unknown.
C4_Original ==
    (connecting # Pending /\ Cardinality(OrthWalls(around)) \in {0, 1, 3, 4}) =>
        connecting = Unknown

\* C4 as amended: with 1, 3 or 4 orthogonal neighbours occupied the
\* classification is Unknown; with none occupied it is Isolated when the centre
\* holds a wall and no diagonal neighbour does, and Unknown otherwise.
C4_UnknownOrIsolated ==
    connecting # Pending =>
        /\ Cardinality(OrthWalls(around)) \in {1, 3, 4} => connecting = Unknown
        /\ Cardinality(OrthWalls(around)) = 0 =>
              connecting = IF IsWall(around[2][2]) /\ NoDiagonalWall(around)
                           THEN Isolated
                           ELSE Unknown

\* A wall at a three-way junction (walls north, south and east) has been
\* classified as Unknown.
C4_Witness ==
    /\ connecting = Unknown
    /\ IsWall(around[2][2])
    /\ OrthWalls(around) = {"N", "S", "E"}

\* The neighbourhood a with its four diagonal entries replaced by those of d.
WithDiagonals(a, d) ==
    [r \in 1..3 |-> [k \in 1..3 |->
        IF <<r, k>> \in Diagonals THEN d[<<r, k>>] ELSE a[r][k]]]

\* C5: neighbourhoods that agree on the centre and on N, S, E, W and differ
\* only in NW, NE, SW, SE classify to the same category.
C5_DiagonalsIgnored ==
    connecting # Pending =>
        \A d \in [Diagonals -> NeighbourEntries] :
            Classify(WithDiagonals(around, d)) = connecting

\* ------------------------------------------------------------------------
\* Claims about WorldGeometry, checked under Spec.
\* ------------------------------------------------------------------------

\* c names a cell of a grid of size sz.
InBounds(sz, c) == c[1] >= 0 /\ c[1] < sz[1] /\ c[2] >= 0 /\ c[2] < sz[2]

\* The cell of coordinate c in the row-major vector m: index y * width + x.
StoredAt(sz, m, c) == m[c[2] * sz[1] + c[1] + 1]

\* c lies on the border of the inclusive rectangle [p0, p1].
OnBorder(c, p0, p1) ==
    /\ p0[1] <= c[1] /\ c[1] <= p1[1]
    /\ p0[2] <= c[2] /\ c[2] <= p1[2]
    /\ (c[1] = p0[1] \/ c[1] = p1[1] \/ c[2] = p0[2] \/ c[2] = p1[2])

\* C1: get(c) is None for every c outside the grid (x or y negative, x >= width
\* or y >= height) and is the cell stored at c for every c inside it.
C1_GetIsBoundsChecked ==
    ret.op = "get" =>
        ret.result = IF InBounds(size, ret.c)
                     THEN Some(StoredAt(size, map, ret.c))
                     ELSE None

\* C2: around(c) never panics and yields nine entries (NW, N, NE), (W, Center,
\* E), (SW, S, SE); the entry at offset (dx, dy) is Some(cell at c + (dx, dy))
\* when that coordinate is inside the grid and None when it is outside.
C2_AroundMatchesBounds ==
    ret.op = "around" =>
        /\ ret.result # Panic
        /\ \A r \in 1..3, k \in 1..3 :
              LET p == <<ret.c[1] + k - 2, ret.c[2] + r - 2>>
              IN  ret.result[r][k] = IF InBounds(size, p)
                                     THEN Some(StoredAt(size, map, p))
                                     ELSE None

\* C7: outline(p0, p1, V) with in-bounds p0 <= p1 sets exactly the border cells
\* of the inclusive rectangle [p0, p1] to V and leaves every other cell of the
\* grid at its prior value.
C7_OutlineSetsExactlyBorder ==
    ret.op = "outline" =>
        /\ ~ret.panic
        /\ \A c \in Cells(size) :
              StoredAt(size, map, c) =
                  IF OnBorder(c, ret.p0, ret.p1)
                  THEN ret.value
                  ELSE StoredAt(size, ret.before, c)

\* C12: set(p, v) with p in bounds makes get(p) == v and leaves every other
\* cell unchanged; set(p, v) with p out of bounds on either axis (p.x >= width
\* with p.y in range included) fails and modifies no cell.
C12_SetWritesOneCellOrFails ==
    ret.op = "set" =>
        IF InBounds(size, ret.c)
        THEN /\ ~ret.panic
             /\ WorldGeometry_get(size, map, ret.c, build) = Some(ret.value)
             /\ \A c \in Cells(size) :
                   StoredAt(size, map, c) =
                       IF c = ret.c THEN ret.value ELSE StoredAt(size, ret.before, c)
        ELSE /\ ret.panic
             /\ map = ret.before

\* The row-major coordinate of the i-th cell (from 1) of a grid of size sz.
RowMajor(sz, i) == <<(i - 1) % sz[1], (i - 1) \div sz[1]>>

\* C13: for every width x height grid, non-square ones included, the linear
\* index of in-bounds (x, y) is y * width + x, index_to_grid of that index is
\* (x, y) again, and layout() lists every cell exactly once in row-major order
\* paired with its own grid coordinate.
C13_IndexIsRowMajor ==
    /\ ret.op = "grid_position" =>
          /\ ret.index = ret.c[2] * size[1] + ret.c[1]
          /\ ret.grid = ret.c
    /\ ret.op = "layout" =>
          /\ Len(ret.result) = size[1] * size[2]
          /\ \A i \in 1..Len(ret.result) :
                /\ ret.result[i].grid = RowMajor(size, i)
                /\ ret.result[i].value = StoredAt(size, map, RowMajor(size, i))
          /\ {ret.result[i].grid : i \in 1..Len(ret.result)} = Cells(size)

\* The world coordinate c - (size - 1) / 2 of cell c, in half tiles.
Centred(sz, c) == <<2 * c[1] - (sz[1] - 1), 2 * c[2] - (sz[2] - 1)>>

\* C14: the world coordinate reported by layout() / grid_position for grid
\* cell c is c - (size - 1) / 2 on each axis, one unit per cell, for even and
\* odd sizes alike, so the world coordinates of cell c and of the mirrored cell
\* size - 1 - c sum to zero.
C14_CentredOnOrigin ==
    /\ ret.op = "grid_position" =>
          LET mirrored == WorldGeometry_grid_position(
                              size, <<size[1] - 1 - ret.c[1], size[2] - 1 - ret.c[2]>>, build)
          IN  /\ ret.result = Centred(size, ret.c)
              /\ ret.result[1] + mirrored[1] = 0
              /\ ret.result[2] + mirrored[2] = 0
    /\ ret.op = "layout" =>
          \A i \in 1..Len(ret.result) :
              ret.result[i].world = Centred(size, ret.result[i].grid)

\* ------------------------------------------------------------------------
\* Claims about RectangularMapping (under SpecMapping)
\* ------------------------------------------------------------------------

\* C6: for a w x h source map m and every corner-grid coordinate (x, y) with
\* x <= 2(w-1) and y <= 2(h-1), get((x, y)) is [m(xl,yt), m(xr,yt), m(xl,yb),
\* m(xr,yb)], where xl = xr = x/2 for even x and xl = (x-1)/2, xr = xl + 1 for
\* odd x (likewise yt, yb from y), all four indices inside the source map; on
\* the 6x6 row-major fixture get((0,0)) = [0,0,0,0], get((1,1)) = [0,1,6,7]
\* and get((5,5)) = [14,15,20,21].
C6_MappingGet ==
    mapped # Pending =>
        LET w == Len(source[1])
            h == Len(source)
            x == mapped.p[1]
            y == mapped.p[2]
            m(i, j) == source[j + 1][i + 1]
            xl == IF x % 2 = 0 THEN x \div 2 ELSE (x - 1) \div 2
            xr == IF x % 2 = 0 THEN xl ELSE xl + 1
            yt == IF y % 2 = 0 THEN y \div 2 ELSE (y - 1) \div 2
            yb == IF y % 2 = 0 THEN yt ELSE yt + 1
        IN  /\ (x <= 2 * (w - 1) /\ y <= 2 * (h - 1)) =>
                /\ xl >= 0 /\ xr < w /\ yt >= 0 /\ yb < h
                /\ mapped.result = <<m(xl, yt), m(xr, yt), m(xl, yb), m(xr, yb)>>
            /\ (w = 6 /\ h = 6 /\ mapped.p = <<0, 0>>) => mapped.result = <<0, 0, 0, 0>>
            /\ (w = 6 /\ h = 6 /\ mapped.p = <<1, 1>>) => mapped.result = <<0, 1, 6, 7>>
            /\ (w = 6 /\ h = 6 /\ mapped.p = <<5, 5>>) => mapped.result = <<14, 15, 20, 21>>

\* C6 witness: get((5, 5)) on the 6x6 fixture has returned [14, 15, 20, 21].
C6_Witness ==
    /\ source = RowMajorData(6, 6)
    /\ mapped # Pending
    /\ mapped.p = <<5, 5>>
    /\ mapped.result = <<14, 15, 20, 21>>

\* ------------------------------------------------------------------------
\* Claims about Terrain::world_to_grid (under SpecTerrain)
\* ------------------------------------------------------------------------

\* C8: for every grid size, even or odd on each axis, and every in-bounds grid
\* coordinate c, world_to_grid(grid_to_world(c)) == c.
C8_RoundTrip ==
    (probe # Pending /\ probe.op = "round_trip") => probe.result = Some(probe.c)

\* C9: world_to_grid(p) returns Some(cell) only with 0 <= cell.x < size.x and
\* 0 <= cell.y < size.y, and returns None for every position whose recentred
\* coordinate falls outside [0, size) on either axis, a coordinate exactly
\* equal to size included.
C9_NoneOutsideHalfOpenRange ==
    (probe # Pending /\ probe.op = "world_to_grid") =>
        LET local == <<probe.position[1] + options[1], probe.position[2] + options[2]>>
            inside == \A i \in 1..2 : 0 <= local[i] /\ local[i] < 2 * options[i]
        IN  /\ probe.result.some =>
                \A i \in 1..2 : 0 <= probe.result.v[i] /\ probe.result.v[i] < options[i]
            /\ ~inside => probe.result = None

\* C11: survey(p) returns None exactly when p lies outside the grid bounds
\* (world_to_grid(p) is None); for every position over the grid it returns Some
\* survey whose location is world_to_grid(p).
C11_SurveyNoneOnlyOffGrid ==
    (probe # Pending /\ probe.op = "survey") =>
        /\ probe.result = None <=> probe.index = None
        /\ probe.index.some =>
                probe.result.some /\ probe.result.v.location = probe.index.v

\* ------------------------------------------------------------------------
\* Claims about the classification of a surveyed cell (under SpecSurvey)
\* ------------------------------------------------------------------------

\* C10: four corner heights classify as Water when all four are < 0, as Beach
\* when at least one but not all are < 0, and as Ground when all four are >= 0;
\* the three classes are exhaustive and mutually exclusive.
C10_WaterBeachGround ==
    surveyed # Pending =>
        LET below == Cardinality({i \in 1..4 : cell[i] < 0})
        IN  /\ surveyed.kind \in {"Water", "Beach", "Ground"}
            /\ surveyed.kind = "Water" <=> below = 4
            /\ surveyed.kind = "Beach" <=> below \in 1..3
            /\ surveyed.kind = "Ground" <=> below = 0

\* C10 witness: the cell [-0.1, 0.2, 0.3, 0.4] has been classified as Beach.
C10_Witness ==
    /\ cell = <<-1, 2, 3, 4>>
    /\ surveyed = Beach

\* ------------------------------------------------------------------------
\* Claims about Grid (under SpecGrid)
\* ------------------------------------------------------------------------

\* The cell (x, y) of a grid, its items read row by row.
CellAt(g, x, y) == g.items[y * g.size[1] + x + 1]

\* C15: every Grid returned by new, from_rows, grow, duplicate or expand has
\* items.len() == size.0 * size.1, and the assertion of Grid::new never fails
\* inside grow, duplicate or expand for a non-empty source grid, grids one cell
\* wide or one cell high included.
C15_ItemsFillTheSize ==
    made # Pending =>
        /\ made.result # Panic =>
              Len(made.result.items) = made.result.size[1] * made.result.size[2]
        /\ made.op \in {"grow", "duplicate", "expand"} => made.result # Panic

\* C16: expand() of a w x h grid s yields a grid of size (2w-1) x (2h-1) whose
\* cell (x, y) is [s(floor(x/2), floor(y/2)), s(ceil(x/2), floor(y/2)),
\* s(floor(x/2), ceil(y/2)), s(ceil(x/2), ceil(y/2))], which is
\* RectangularMapping::get((x, y)) over the same source.
C16_ExpandIsRectangularMapping ==
    (made # Pending /\ made.op = "expand") =>
        LET w == sourceGrid.size[1]
            h == sourceGrid.size[2]
            r == made.result
        IN  /\ r # Panic
            /\ r.size = <<2 * w - 1, 2 * h - 1>>
            /\ \A x \in 0..(2 * w - 2), y \in 0..(2 * h - 2) :
                  /\ CellAt(r, x, y) =
                        <<CellAt(sourceGrid, x \div 2, y \div 2),
                          CellAt(sourceGrid, (x + 1) \div 2, y \div 2),
                          CellAt(sourceGrid, x \div 2, (y + 1) \div 2),
                          CellAt(sourceGrid, (x + 1) \div 2, (y + 1) \div 2)>>
                  /\ CellAt(r, x, y) =
                        RectangularMapping_get(Grid_rows(sourceGrid), <<x, y>>)

\* C17: duplicate((fx, fy)) of a w x h grid s yields a grid of size
\* (w * fx) x (h * fy) whose cell (x, y) is s(x div fx, y div fy), for all
\* factors fx, fy >= 1, equal or not.
C17_DuplicateRepeatsCells ==
    (made # Pending /\ made.op = "duplicate") =>
        LET w == sourceGrid.size[1]
            h == sourceGrid.size[2]
            fx == made.factor[1]
            fy == made.factor[2]
            r == made.result
        IN  /\ r # Panic
            /\ r.size = <<w * fx, h * fy>>
            /\ Len(r.items) = w * fx * h * fy
            /\ \A x \in 0..(w * fx - 1), y \in 0..(h * fy - 1) :
                  CellAt(r, x, y) = CellAt(sourceGrid, x \div fx, y \div fy)

\* C17 witness: the 2x2 grid 1 2 / 3 4 duplicated by (2, 1) is the 4x2 grid
\* 1 1 2 2 / 3 3 4 4.
C17_Witness ==
    /\ sourceGrid = Numbered(2, 2)
    /\ made # Pending
    /\ made.op = "duplicate"
    /\ made.factor = <<2, 1>>
    /\ made.result = Grid_new(<<4, 2>>, <<1, 1, 2, 2, 3, 3, 4, 4>>)

\* ------------------------------------------------------------------------
\* Claims about the structure layer (under SpecStructures)
\* ------------------------------------------------------------------------

C19_EventsAppliedInOrder ==
    drained # <<>> =>
        /\ Len(structures.log) = 2 * Len(drained)
        /\ \A k \in 1..Len(drained) :
              /\ structures.log[2 * k - 1] =
                    [step |-> "set", at |-> drained[k].at,
                     structure |-> drained[k].structure]
              /\ structures.log[2 * k] = [step |-> "refresh"]
        /\ \A c \in LayerCells : structures.entities[c].tag \in {"Empty", "Current"}

\* C19 witness: a tick has applied two events sent for two different cells.
C19_Witness ==
    /\ Len(drained) = 2
    /\ drained[1].at # drained[2].at
    /\ Len(structures.log) = 4
    /\ structures.entities[drained[1].at] = Current(Wall("One"), structures.entities[drained[1].at].entity)

\* ------------------------------------------------------------------------
\* Claims about Phase (under SpecPhase)
\* ------------------------------------------------------------------------

\* The order of the phases of one round.
Round ==
    <<Fortify("One"), Arm("One"), Fortify("Two"), Arm("Two"),
      Target("One"), Target("Two")>>

\* C20: from the default phase Fortify(One), repeated Phase::next visits
\* Fortify(One), Arm(One), Fortify(Two), Arm(Two), Target(One), Target(Two) in
\* that order and is back on Fortify(One) after exactly six steps; every phase
\* has exactly one successor and one predecessor, so each player fortifies and
\* arms before any player targets.
C20_PhaseCycle ==
    LET visited == Append(history, gamePhase)
    IN  /\ \A i \in 1..Len(visited) : visited[i] = Round[((i - 1) % 6) + 1]
        /\ \A i \in 1..Len(visited) : visited[i] = Fortify("One") <=> (i - 1) % 6 = 0
        /\ \A q \in Phases : Cardinality({r \in Phases : Phase_next(r) = q}) = 1
        /\ \A i, j \in 1..Len(visited) :
              (/\ (i - 1) \div 6 = (j - 1) \div 6
               /\ visited[i].kind \in {"Fortify", "Arm"}
               /\ visited[j].kind = "Target") => i < j

\* C20 witness: six steps from the start the game is on Fortify(One) again,
\* having just left Target(Two).
C20_Witness ==
    /\ Len(history) = 6
    /\ history[1] = Fortify("One")
    /\ history[6] = Target("Two")
    /\ gamePhase = Fortify("One")

\* ------------------------------------------------------------------------
\* C21  Layers::get(v) returns the colour of the first layer in table order
\*      whose threshold is >= v, and the sentinel red only when no threshold
\*      is >= v; with the default table no value in [-1, 1] maps to red.
\* ------------------------------------------------------------------------
Covering(table, v) == {i \in 1..Len(table) : table[i].threshold >= v}

FirstCovering(table, v) ==
    CHOOSE i \in Covering(table, v) : \A j \in Covering(table, v) : i <= j

C21_FirstThresholdWins ==
    sampled # None =>
        LET v == sampled.v.v
            color == sampled.v.color
        IN  /\ Covering(layerTable, v) # {} =>
                color = layerTable[FirstCovering(layerTable, v)].color
            /\ Covering(layerTable, v) = {} <=> color = RED
            /\ (layerTable = Layers_default /\ v >= -100 /\ v <= 100) => color # RED

\* The default table at its last threshold, 1.00, gives the last colour.
C21_Witness ==
    /\ layerTable = Layers_default
    /\ sampled # None
    /\ sampled.v.v = 100
    /\ sampled.v.color = <<27, 55, 32>>

\* ------------------------------------------------------------------------
\* C22  After create_castle on an empty layer every wall cell of the outline
\*      classifies as a Corner of 0/90/180/270, EastWest or NorthSouth: none
\*      as Unknown or Isolated.
\* ------------------------------------------------------------------------
SixConfigurations ==
    {Corner(0), Corner(90), Corner(180), Corner(270), EastWest, NorthSouth}

C22_CastleWallsAreExpected ==
    castle # None =>
        LET layers == castle.v.layers
        IN  \A c \in DOMAIN layers.entities :
                (/\ layers.entities[c].tag # "Empty"
                 /\ layers.entities[c].structure.kind = "Wall")
                    => /\ c \in DOMAIN layers.classified
                       /\ layers.classified[c] \in SixConfigurations

\* ------------------------------------------------------------------------
\* Claims about the entities of the structure layer (under SpecStructures)
\* ------------------------------------------------------------------------

\* The cells of the layer that record entity e.
CellsRecording(e) ==
    {c \in LayerCells : /\ structures.entities[c].tag \in {"Current", "Affected"}
                        /\ structures.entities[c].entity = e}

\* C23: after setup and any sequence of construction events, every entity
\* that was spawned and not despawned is recorded in exactly one cell of the
\* grid, and every Current cell records a live entity: overwriting a cell
\* never leaves its previous entity alive and unreferenced.
C23_LiveEntitiesAreRecorded ==
    phase = "game" =>
        /\ \A e \in structures.live : Cardinality(CellsRecording(e)) = 1
        /\ \A c \in LayerCells :
              structures.entities[c].tag = "Current"
                  => structures.entities[c].entity \in structures.live

\* C24: after setup_structures and after each construction event has been
\* processed by refresh_terrain, every cell of the structure layer is Empty
\* or Current: refresh_entities leaves no New and no Affected cell behind,
\* and the cell of every processed event is Current.
C24_NoNewOrAffectedLeft ==
    phase = "game" =>
        /\ \A c \in LayerCells :
              structures.entities[c].tag \in {"Empty", "Current"}
        /\ \A k \in 1..Len(drained) :
              structures.entities[drained[k].at].tag = "Current"

\* C24 witness: an event next to a cannon has been processed; the cannon,
\* affected by it, is Current again with the entity it had, and the walls
\* around the event have entities spawned after setup.
C24_Witness ==
    /\ phase = "game"
    /\ Len(drained) = 1
    /\ \E c \in LayerCells :
          /\ structures.entities[c].tag = "Current"
          /\ structures.entities[c].structure.kind = "Cannon"
          /\ c \in Around_entries(Around_center(drained[1].at))
          /\ c # drained[1].at
    /\ \E c \in LayerCells :
          /\ c # drained[1].at
          /\ structures.entities[c].tag = "Current"
          /\ structures.entities[c].structure.kind = "Wall"
          /\ structures.entities[c].entity > Cardinality(LayerCells)

\* ------------------------------------------------------------------------
\* C25  StructureLayers::set(g, s) changes only cells in the 3x3
\*      neighbourhood of g: g becomes New(s), each Current cell among the 8
\*      neighbours on the grid becomes Affected with the same structure and
\*      entity, Empty, New and Affected neighbours and every cell outside
\*      the neighbourhood are unchanged; the refresh that follows despawns
\*      and respawns only Affected walls and keeps the entity of an
\*      Affected cannon.
\* ------------------------------------------------------------------------
Neighbours(g, entities) ==
    (Around_entries(Around_center(g)) \ {g}) \cap DOMAIN entities

AffectedWalls(entities) ==
    {c \in DOMAIN entities : /\ entities[c].tag = "Affected"
                             /\ entities[c].structure.kind = "Wall"}

C25_SetFrameAndRefresh ==
    placed # None =>
        LET g == placed.v.at
            b == placed.v.before.entities
            w == placed.v.written.entities
            a == placed.v.after.entities
        IN  /\ w[g] = New(placed.v.structure)
            /\ \A c \in Neighbours(g, b) :
                  IF b[c].tag = "Current"
                  THEN w[c] = Affected(b[c].structure, b[c].entity)
                  ELSE w[c] = b[c]
            /\ \A c \in DOMAIN b \ (Neighbours(g, b) \cup {g}) : w[c] = b[c]
            /\ placed.v.before.live \ placed.v.after.live
                  = {w[c].entity : c \in AffectedWalls(w)}
            /\ \A c \in AffectedWalls(w) :
                  /\ a[c].tag = "Current"
                  /\ a[c].structure = w[c].structure
                  /\ a[c].entity \notin placed.v.before.live
                  /\ a[c].entity \in placed.v.after.live
            /\ \A c \in DOMAIN w \ (AffectedWalls(w) \cup {g}) :
                  IF w[c].tag = "Affected"
                  THEN a[c] = Current(w[c].structure, w[c].entity)
                  ELSE a[c] = w[c]

\* C25 witness: a wall was placed on an empty cell inside a castle, next to
\* its cannon, to walls of its outline and to empty cells.
C25_Witness ==
    /\ placed # None
    /\ placed.v.before.entities[placed.v.at] = Empty
    /\ AffectedWalls(placed.v.written.entities) # {}
    /\ \E c \in Neighbours(placed.v.at, placed.v.before.entities) :
          /\ placed.v.written.entities[c].tag = "Affected"
          /\ placed.v.written.entities[c].structure.kind = "Cannon"
          /\ placed.v.after.entities[c] = placed.v.before.entities[c]
    /\ \E c \in Neighbours(placed.v.at, placed.v.before.entities) :
          placed.v.before.entities[c] = Empty

\* ------------------------------------------------------------------------
\* C26  Each TerrainModifiedEvent advances the game phase by exactly one
\*      Phase::next step, also when several events are read in the same
\*      tick (k events advance the phase by k steps), and after every tick
\*      ActivePlayer equals the player of the phase that was set.
\* ------------------------------------------------------------------------
C26_OneStepPerEvent ==
    /\ tick # None =>
          /\ tick.v.set = Phase_steps(tick.v.before, tick.v.events)
          /\ tick.v.player = Phase_player(tick.v.set)
    /\ nextState # None => activePlayer = Phase_player(nextState.v)

\* ------------------------------------------------------------------------
\* C27  An entity carrying Expires::after(L) is never despawned by the
\*      expirations system before more than L seconds have passed since the
\*      first tick in which the system observed it; while ExpirationControl
\*      stays Running and time advances it is eventually despawned; while
\*      ExpirationControl is Paused no entity is despawned by expirations.
\* ------------------------------------------------------------------------
NotBeforeLifetime ==
    \A e \in Expiring :
        expiring[e].despawned # None =>
            /\ expiring[e].observed # None
            /\ expiring[e].despawned.v - expiring[e].observed.v > expiring[e].lifetime

NothingDespawnedWhilePaused ==
    (lastFrame # None /\ lastFrame.v.control = "Paused") => lastFrame.v.despawned = {}

AllDespawned == \A e \in Expiring : ~expiring[e].alive

C27_ExpiresAfterLifetime ==
    /\ [](NotBeforeLifetime /\ NothingDespawnedWhilePaused)
    /\ (<>[](control = "Running")) => <>AllDespawned

\* C27 witness: the explosion was first observed, then the game was paused,
\* and a later running frame despawned it one tick after its lifetime.
C27_Witness ==
    /\ toggles = 2
    /\ lastFrame # None
    /\ lastFrame.v.control = "Running"
    /\ "Explosion" \in lastFrame.v.despawned
    /\ expiring["Explosion"].lifetime = MaxLifetime
    /\ expiring["Explosion"].despawned.v
          = expiring["Explosion"].observed.v + expiring["Explosion"].lifetime + 1

\* ------------------------------------------------------------------------
\* C28  Every vertex of the mesh built by Terrain::mesh samples a noise
\*      cell inside the noise map: for a terrain of size w x h and
\*      resolution r each of the (w+1) x (h+1) vertices (c, r') reads noise
\*      index (c div r, r' div r) with c div r < w div r and
\*      r' div r < h div r, and every triangle index is < (w+1)*(h+1).
\* ------------------------------------------------------------------------
C28_VerticesSampleInsideNoise ==
    meshed # None =>
        LET w == meshOptions.size[1]
            h == meshOptions.size[2]
            noise == TerrainOptions_noise_size(meshOptions.size, meshOptions.resolution)
            vertices == meshed.v.grid_noise
        IN  /\ Len(vertices) = (w + 1) * (h + 1)
            /\ \A k \in 1..Len(vertices) :
                  /\ vertices[k].index[1] < noise[1]
                  /\ vertices[k].index[2] < noise[2]
            /\ \A n \in 1..Len(meshed.v.indices) :
                  meshed.v.indices[n] < (w + 1) * (h + 1)

\* ------------------------------------------------------------------------
\* C29  A click produces a ConstructionEvent only when the survey of the
\*      hit position classifies the cell as Ground, and then exactly one
\*      event carrying that cell's location; clicks whose survey is Beach
\*      or Water, clicks outside the grid (survey None) and clicks without
\*      a hit position produce no event, and try_place itself never
\*      modifies the structure layer.
\* ------------------------------------------------------------------------
\* The clicks of a run that hit ground, in the order they were read.
GroundClicks(run) ==
    {i \in 1..Len(run.clicks) :
        /\ run.terrain
        /\ run.clicks[i].hit
        /\ run.clicks[i].survey # None
        /\ run.clicks[i].survey.v.cell.kind = "Ground"}

EventsMatchGroundClicks ==
    lastTry # None =>
        LET run == lastTry.v
            ground == GroundClicks(run)
            nth(k) == CHOOSE i \in ground : Cardinality({j \in ground : j < i}) = k - 1
        IN  /\ Len(run.sent) = Cardinality(ground)
            /\ \A k \in 1..Len(run.sent) :
                  /\ run.sent[k].at = run.clicks[nth(k)].survey.v.location
                  /\ run.sent[k].structure = Wall("One")

C29_OnlyGroundClicksBuild ==
    /\ []EventsMatchGroundClicks
    /\ [][lastTry' # lastTry => buildLayers' = buildLayers]_vars

\* C29 witness: one run read a click on a beach and a click on ground and
\* sent one event, for the ground cell; the layer has since been written.
C29_Witness ==
    /\ lastTry # None
    /\ Len(lastTry.v.clicks) = 2
    /\ lastTry.v.clicks[1].survey # None
    /\ lastTry.v.clicks[1].survey.v.cell = Beach
    /\ Len(lastTry.v.sent) = 1
    /\ lastTry.v.sent[1].at = <<1, 0>>
    /\ buildLayers # SetupLayers

\* ------------------------------------------------------------------------
\* C30  At most one Placing entity exists at any time, under any sequence
\*      of entering and leaving Activity::Building: entering Building
\*      despawns an existing Placing entity before spawning a new one, and
\*      after leaving Building no Placing entity remains.
\* ------------------------------------------------------------------------
C30_AtMostOnePlacing ==
    /\ Cardinality(placingEntities) <= 1
    /\ activity = "Building" => placingEntities = {placingSpawned}
    /\ activity # "Building" => placingEntities = {}

\* C30 witness: Building was entered a second time, the first Placing entity
\* is gone and the second is the only one.
C30_Witness ==
    /\ activity = "Building"
    /\ placingSpawned = 2
    /\ placingEntities = {2}

====
